---------------------------- MODULE Spec2Model ----------------------------
(***************************************************************************)
(* A model of the proxy server's LRU cache (cache/cache.go, package cache, *)
(* type LRUCache).                                                         *)
(*                                                                         *)
(* Set, Remove and Clear hold the exclusive lock for their whole body, so  *)
(* each is one atomic action.  Get takes the read lock only to probe the   *)
(* index, releases it, reads the element's value with no lock held, and    *)
(* takes the exclusive lock again for its mutation: it is modelled as the  *)
(* steps GetLookup, GetLoadItem and one of GetAbsent / GetExpired /        *)
(* GetHit, which other operations may interleave.                          *)
(*                                                                         *)
(* A *list.Element is modelled by an identifier (its allocation number);   *)
(* "element.list == c.evictionList" holds exactly when the identifier      *)
(* occurs in evictionList (list.Remove sets element.list to nil, Clear     *)
(* installs a new list).                                                   *)
(***************************************************************************)
EXTENDS Integers, Sequences, FiniteSets, TLC

\* ------------------------------------------------------------------ bounds
MaxCalls    == 2      \* Set, Remove and Clear calls in one concurrent run
MaxGets     == 2      \* Get calls started in one concurrent run
MaxSeqCalls == 3      \* Set, Remove and Clear calls in one sequential run
MaxSeqGets  == 1      \* Get calls in one sequential run
MaxTime     == 3      \* the clock runs over 1..MaxTime
MaxWorkers  == 2      \* NewWorkerPool(n) for n in 1..MaxWorkers
MaxCallers  == 4      \* goroutines calling Enqueue, one call each
MaxRunWorkers == 1    \* NewWorkerPool(n) for n in 1..MaxRunWorkers, in fair runs
MaxRequests == 2      \* requests the pipeline handles in one run
MaxChain    == 12     \* redirects an upstream answers before its final response
MaxHits     == 3      \* requests the handler chain serves in one run
MaxStopCallers == 3   \* goroutines calling Enqueue in fair runs with Stop

Procs == {"g1", "g2"}                \* goroutines calling Get

\* the inputs of concurrent runs
Capacities == {0, 1}                 \* NewLRUCache(capacity)
ConcKeys   == {"a", "b"}
ConcValues == {<<1>>}                \* []byte
ConcTTLs   == {-1, 0, 1}             \* time.Duration

\* the inputs of sequential runs: three keys with one value (SpecSeq), two keys
\* with values of two lengths (SpecUpd)
SeqCapacities == {0, 1, 2}
LoopCapacities == {-1, 0, 1, 2}          \* NewLRUCache takes any int
SeqKeys       == {"a", "b", "c"}
SeqValues     == {<<1>>}
UpdKeys       == {"a", "b"}
Values        == {<<1>>, <<2, 2>>}
TTLs          == {0, 1}

\* the inputs of worker pool runs
PoolSizes == 1..MaxWorkers           \* NewWorkerPool(maxWorkers)
RunSizes  == 1..MaxRunWorkers        \* NewWorkerPool(maxWorkers), in fair runs
Callers   == 1..MaxCallers           \* goroutines serving one request each

DefaultWorkers == 10                 \* NewWorkerPool: maxWorkers <= 0

\* ---- the inputs of pipeline runs
\* Strings the code only compares or copies are strings; a host, which the code
\* tests for a suffix, is the sequence of its pieces ("www." then "example.com").
ExampleCom == <<"example.com">>
WwwExample == <<"www.", "example.com">>
EvilExample == <<"evil-", "example.com">>
OtherOrg   == <<"other.org">>

\* url.URL: the fields the pipeline reads
NoURL == [String |-> "", Scheme |-> "", Host |-> <<>>]
URL(str, scheme, host) == [String |-> str, Scheme |-> scheme, Host |-> host]

\* url.Parse on the target strings of the runs: a string without a scheme before
\* its first colon is an error; a bare word parses to a path without scheme or
\* host; the scheme is stored in lower case, and String is URL.String() of the
\* result, its re-serialization
Parse(str) ==
    CASE str = ":bad"        -> [err |-> TRUE,  url |-> NoURL]
      [] str = "invalid-url" -> [err |-> FALSE, url |-> URL(str, "", <<>>)]
      [] str = "http://www.example.com/a"
                             -> [err |-> FALSE, url |-> URL(str, "http", WwwExample)]
      [] str = "http://evil-example.com/a"
                             -> [err |-> FALSE, url |-> URL(str, "http", EvilExample)]
      [] str = "http://other.org/a"
                             -> [err |-> FALSE, url |-> URL(str, "http", OtherOrg)]
      [] str = "HTTP://www.example.com/a"
                             -> [err |-> FALSE,
                                 url |-> URL("http://www.example.com/a", "http", WwwExample)]
      [] str = "http://www.example.com/A"
                             -> [err |-> FALSE, url |-> URL(str, "http", WwwExample)]
      [] str = "http://www.example.com/a?x=1"
                             -> [err |-> FALSE, url |-> URL(str, "http", WwwExample)]

Targets == {":bad", "invalid-url", "http://www.example.com/a",
            "http://evil-example.com/a", "http://other.org/a"}

\* the inbound request line: "GET /?url=..." or the absolute form "GET http://..."
OriginForm   == URL("/", "", <<>>)
AbsoluteForm == Parse("http://other.org/a").url

\* targets that differ from http://www.example.com/a in the case of the scheme,
\* in the case of the path, and in the query string
KeyTargets == {"http://www.example.com/a", "HTTP://www.example.com/a",
               "http://www.example.com/A", "http://www.example.com/a?x=1"}

\* the keys the pipeline can hand to the cache: METHOD:URL for the cacheable methods
PipeKeys == {m \o ":" \o Parse(t).url.String :
                m \in {"GET", "HEAD"},
                t \in {x \in Targets \cup KeyTargets : ~Parse(x).err}}

\* every key of the runs: the index is a map over them
Keys == SeqKeys \cup PipeKeys

Nil      == 0                        \* nil *list.Element
ZeroTime == 0                        \* time.Time{} (IsZero)
NoItem   == [Key |-> "", Value |-> <<>>, Size |-> 0, ExpiresAt |-> ZeroTime]
NoEntry  == <<>>                     \* expect[k] when no entry is owed for k

VARIABLES
    capacity,      \* LRUCache.capacity
    items,         \* LRUCache.items: key -> element (Nil when the key is not mapped)
    evictionList,  \* LRUCache.evictionList: elements, front (most recent) first
    elems,         \* element -> its Value (*CacheItem), for the reachable elements
    totalSize,     \* LRUCache.totalSize
    hits,          \* LRUCache.hits
    misses,        \* LRUCache.misses
    evictions,     \* LRUCache.evictions
    now,           \* time.Now()
    pc,            \* per Get caller: "idle", "probed" (after line 86), "loaded" (after line 95)
    key,           \* per Get caller: its argument
    element,       \* per Get caller: the element it read from the index
    item,          \* per Get caller: the item it read from element.Value
    calls,         \* Set, Remove and Clear calls completed
    ret,           \* the value returned by the last completed call
    \* history variables, read by the properties only
    recency,       \* stored keys, most recently touched first
    expect,        \* key -> <<ExpiresAt>> of the entry the last Set of the key stored,
                   \* NoEntry once a Remove, a Clear, a capacity eviction or the
                   \* expiry of that entry has taken it away
    issued,        \* per Get caller: the call was issued while expect[key] was owed,
                   \* and expect[key] has not been written since
    destroyed,     \* entries taken off the list other than by Clear
    found,         \* completed Get calls that returned found
    notFound       \* completed Get calls that returned not found

cacheVars == <<capacity, items, evictionList, elems, totalSize, hits, misses, evictions>>
getVars   == <<pc, key, element, item>>
histVars  == <<recency, expect, issued, destroyed, found, notFound>>
vars      == <<cacheVars, now, getVars, ret, calls, histVars>>

VARIABLES
    maxWorkers,    \* WorkerPool.maxWorkers; 0 while no pool is constructed
    jobQueue,      \* WorkerPool.jobQueue: the jobs in the channel's buffer, oldest first
    closed,        \* close(wp.jobQueue) has run
    wg,            \* WorkerPool.wg: the WaitGroup counter
    worker,        \* per worker goroutine: "recv" (at the range, line 53), "serve"
                   \* (in handler.ServeHTTP, line 56), "signal" (before close(job.done),
                   \* line 59), "exited"
    running,       \* per worker goroutine: the job it received
    caller,        \* per Enqueue caller: "idle", "send" (at line 80), "wait" (at line
                   \* 83), "returned", "panic" (send on a closed channel)
    done,          \* per job: its done channel is closed
    stop,          \* the Stop call: "idle", "wait" (at wg.Wait, line 89), "returned"
    \* history variables, read by the properties only
    served,        \* per done channel: the handler runs completed for its job
    blocked        \* callers that reached the send while the queue was full

poolVars == <<maxWorkers, jobQueue, closed, wg, worker, running, caller, done, stop,
              served, blocked>>

VARIABLES
    allowed,       \* config.AllowedDomains
    cacheTTL,      \* config.CacheTTL, in clock ticks
    stage,         \* handleRequest's position: "idle" (no request), "resolve" (line 73),
                   \* "filter" (line 92), "cache" (line 98), "get" (inside cache.Get, line
                   \* 102), "fetch" (line 136), "read" (line 165), "store" (line 172),
                   \* "write" (line 180), "done" (returned)
    req,           \* the request being handled (r)
    up,            \* the upstream response in hand (resp)
    out,           \* what has been written to the client (w)
    handled,       \* requests that have entered handleRequest
    \* history variable, read by the properties only
    trace          \* what the handling of the request has done so far, in order

pipeVars == <<allowed, cacheTTL, stage, req, up, out, handled, trace>>

VARIABLES
    wire,          \* the round trip's position: "off", "new" (a CachedResponse in
                   \* hand), "serialized", "parsed"
    wireResp,      \* the CachedResponse given to serializeResponse
    wireData,      \* the bytes serializeResponse returned
    wireParsed     \* what parseCachedResponse returned for them

wireVars == <<wire, wireResp, wireData, wireParsed>>

VARIABLES
    do,            \* client.Do's position: "off", "send" (about to send a request),
                   \* "redirected" (a redirect in hand, at CheckRedirect), "response",
                   \* "error", "done" (handleRequest has written the status)
    via,           \* the requests client.Do has made so far (len(via))
    chain,         \* the redirects the upstream answers before its final response
    answer         \* the status handleRequest writes (0: none yet)

doVars == <<do, via, chain, answer>>

VARIABLES
    requestsPerMinute, \* RateLimit's parameter
    hop,           \* the request's position in the handler chain: 0 (none in
                   \* flight), i (entering the i-th middleware), and one more than the
                   \* number of middlewares (entering the proxy handler)
    rq,            \* the request in flight: its peer address, method, Accept-Encoding
    reply,         \* what has been set and written on its ResponseWriter
    clients,       \* RateLimit's clients map: per address absent, or count and
                   \* lastAccess
    swept,         \* when the clean-up goroutine last woke up
    \* history variables, read by the properties only
    entered,       \* requests that have entered the chain
    limited        \* per request that reached RateLimit: address, time, passed on

chainVars == <<requestsPerMinute, hop, rq, reply, clients, swept, entered, limited>>

VARIABLES
    setting,       \* the Set call under way: "idle" (none), "loop" (at the loop
                   \* condition, line 151, holding the lock)
    \* history variable, read by the properties only
    removed        \* the entries the last step took out of the index, each with
                   \* whether its TTL had elapsed

loopVars == <<setting, removed>>

\* the state of the machines around the handler
edgeVars == <<wireVars, doVars, chainVars, loopVars>>

allVars == <<vars, poolVars, pipeVars, edgeVars>>

\* ----------------------------------------------------------- sequences
Range(s) == {s[i] : i \in 1..Len(s)}

Without(s, x) == SelectSeq(s, LAMBDA y : y # x)

\* container/list: Remove is a no-op unless e.list == l
ListRemove(l, e) == Without(l, e)

\* container/list: PushFront
PushFront(l, e) == <<e>> \o l

\* container/list: MoveToFront is a no-op unless e.list == l
MoveToFrontNoop(l, e) == l
MoveToFront(l, e) == IF e \in Range(l) THEN <<e>> \o Without(l, e) ELSE l

\* container/list: Back (Nil on an empty list)
BackIsFront(l) == IF Len(l) = 0 THEN Nil ELSE l[1]
Back(l) == IF Len(l) = 0 THEN Nil ELSE l[Len(l)]

\* ------------------------------------------------------------- items
\* Set, lines 120-133: the expiry and the item it builds at time t
CacheItemNoExpiry(k, v, ttl, t) ==
    [Key |-> k, Value |-> v, Size |-> Len(v), ExpiresAt |-> ZeroTime]
CacheItem(k, v, ttl, t) ==
    [Key |-> k, Value |-> v, Size |-> Len(v),
     ExpiresAt |-> IF ttl > 0 THEN t + ttl ELSE ZeroTime]

\* Get, line 98: !item.ExpiresAt.IsZero() && time.Now().After(item.ExpiresAt)
IsExpiredNever(it, t) == FALSE
IsExpired(it, t) == it.ExpiresAt # ZeroTime /\ t > it.ExpiresAt

\* ------------------------------------------------- the cache as a record
Cache == [items |-> items, evictionList |-> evictionList, elems |-> elems,
          totalSize |-> totalSize, evictions |-> evictions]

\* evictElement, lines 230-237
EvictElementUncounted(c, e) ==
    LET it == c.elems[e] IN
    [c EXCEPT !.evictionList = ListRemove(@, e),
              !.items = [@ EXCEPT ![it.Key] = Nil],
              !.totalSize = @ - it.Size]
EvictElementKeepIndex(c, e) ==
    LET it == c.elems[e] IN
    [c EXCEPT !.evictionList = ListRemove(@, e),
              !.totalSize = @ - it.Size,
              !.evictions = @ + 1]
EvictElement(c, e) ==
    LET it == c.elems[e] IN
    [c EXCEPT !.evictionList = ListRemove(@, e),
              !.items = [@ EXCEPT ![it.Key] = Nil],
              !.totalSize = @ - it.Size,
              !.evictions = @ + 1]

\* an eviction that takes an entry whose TTL has elapsed, if there is one
EvictOldestExpiredFirst(c) ==
    LET late == {e \in Range(c.evictionList) : IsExpired(c.elems[e], now)}
    IN  IF late # {} THEN EvictElement(c, CHOOSE e \in late : TRUE)
        ELSE IF Back(c.evictionList) # Nil THEN EvictElement(c, Back(c.evictionList))
        ELSE c

\* evictOldest, lines 222-227
EvictOldest(c) ==
    IF Back(c.evictionList) # Nil THEN EvictElement(c, Back(c.evictionList)) ELSE c

\* Set, line 151: the loop condition
OverCapacityOffByOne(c, cap) == Len(c.evictionList) > cap + 1
OverCapacity(c, cap) == Len(c.evictionList) > cap

\* Set, lines 151-153: for c.evictionList.Len() > c.capacity { c.evictOldest() }
RECURSIVE EvictLoop(_, _)
EvictLoop(c, cap) == IF OverCapacity(c, cap) THEN EvictLoop(EvictOldest(c), cap) ELSE c

\* The elements the garbage collector keeps: those on the list, in the index
\* or held by a Get caller.
Collect(vals, lst, idx, refs) ==
    LET live == (Range(lst) \cup {idx[k] : k \in Keys} \cup refs) \ {Nil}
    IN  [e \in (DOMAIN vals) \cap live |-> vals[e]]

Refs(el) == {el[p] : p \in Procs}

\* A newly allocated element: an identifier no reachable element has.
NewElement ==
    LET used == Range(evictionList) \cup {items[k] : k \in Keys} \cup Refs(element)
    IN  CHOOSE e \in 1..(Cardinality(used) + 1) : e \notin used

\* Size, lines 181-185
Size == Len(evictionList)

\* Capacity, lines 188-190
Capacity == capacity

\* A float64 quotient n/d, kept as the pair; 0.0 is Ratio(0, 1).
Ratio(n, d) == [num |-> n, den |-> d]

SameRatio(x, y) == x.num * y.den = y.num * x.den

\* Stats, lines 193-219
StatsRateOverMisses ==
    LET size  == Len(evictionList)
        total == hits + misses
    IN  [Size |-> size, Capacity |-> capacity, Hits |-> hits, Misses |-> misses,
         HitRate |-> IF misses > 0 THEN Ratio(hits, misses) ELSE Ratio(0, 1),
         Evictions |-> evictions,
         AvgSize |-> IF size > 0 THEN totalSize \div size ELSE 0]
Stats ==
    LET size  == Len(evictionList)
        total == hits + misses
    IN  [Size |-> size, Capacity |-> capacity, Hits |-> hits, Misses |-> misses,
         HitRate |-> IF total > 0 THEN Ratio(hits, total) ELSE Ratio(0, 1),
         Evictions |-> evictions,
         AvgSize |-> IF size > 0 THEN totalSize \div size ELSE 0]

\* ------------------------------------------------- history bookkeeping
Touch(r, k) == <<k>> \o Without(r, k)

KeysOf(c, es) == {c.elems[e].Key : e \in es}

\* the keys of the elements that left the list between c1 and c2
Evicted(c1, c2) == KeysOf(c1, Range(c1.evictionList) \ Range(c2.evictionList))

\* the callers of Get(k), k in ks, are no longer owed the entry they were issued for
Disown(is, ks) == [p \in Procs |-> is[p] /\ key[p] \notin ks]

RECURSIVE DropAll(_, _)
DropAll(r, ks) ==
    IF ks = {} THEN r
    ELSE LET k == CHOOSE x \in ks : TRUE IN DropAll(Without(r, k), ks \ {k})

\* ---------------------------------------------------------------- Init
\* NewLRUCache, lines 74-80
New(caps) ==
    /\ capacity \in caps
    /\ items = [k \in Keys |-> Nil]
    /\ evictionList = <<>>
    /\ elems = <<>>
    /\ totalSize = 0
    /\ hits = 0
    /\ misses = 0
    /\ evictions = 0
    /\ now = 1
    /\ pc = [p \in Procs |-> "idle"]
    /\ key = [p \in Procs |-> ""]
    /\ element = [p \in Procs |-> Nil]
    /\ item = [p \in Procs |-> NoItem]
    /\ ret = [op |-> "none", ok |-> FALSE]
    /\ calls = 0
    /\ recency = <<>>
    /\ expect = [k \in Keys |-> NoEntry]
    /\ issued = [p \in Procs |-> FALSE]
    /\ destroyed = 0
    /\ found = 0
    /\ notFound = 0

\* Writes a cache record back to the variables, collecting unreachable elements.
Install(c, refs) ==
    /\ items' = c.items
    /\ evictionList' = c.evictionList
    /\ elems' = Collect(c.elems, c.evictionList, c.items, refs)
    /\ totalSize' = c.totalSize
    /\ evictions' = c.evictions

\* --------------------------------------------------------------- Set
\* Set, lines 136-143: the key is in the index
SetUpdate(k, v, ttl) ==
    /\ items[k] # Nil
    /\ LET it == CacheItem(k, v, ttl, now)
           e  == items[k]
           c  == [Cache EXCEPT !.totalSize = @ - elems[e].Size + it.Size,
                               !.elems = [@ EXCEPT ![e] = it],
                               !.evictionList = MoveToFront(@, e)]
       IN  /\ Install(c, Refs(element))
           /\ ret' = [op |-> "Set", ok |-> FALSE]
           /\ recency' = Touch(recency, k)
           /\ expect' = [expect EXCEPT ![k] = <<it.ExpiresAt>>]
           /\ issued' = Disown(issued, {k})
    /\ UNCHANGED <<capacity, hits, misses, now, getVars, destroyed, found, notFound>>

\* Set, lines 145-155: the key is not in the index
SetInsert(k, v, ttl) ==
    /\ items[k] = Nil
    /\ LET it == CacheItem(k, v, ttl, now)
           e  == NewElement
           c1 == [Cache EXCEPT !.evictionList = PushFront(@, e),
                               !.elems = (e :> it) @@ @,
                               !.items = [@ EXCEPT ![k] = e],
                               !.totalSize = @ + it.Size]
           c2 == EvictLoop(c1, capacity)
           gone == Evicted(c1, c2)
       IN  /\ Install(c2, Refs(element))
           /\ ret' = [op |-> "Set", ok |-> TRUE]
           /\ recency' = DropAll(Touch(recency, k), gone)
           /\ expect' = [x \in Keys |-> IF x \in gone THEN NoEntry
                                        ELSE IF x = k THEN <<it.ExpiresAt>> ELSE expect[x]]
           /\ issued' = Disown(issued, gone \cup {k})
           /\ destroyed' = destroyed + Len(c1.evictionList) - Len(c2.evictionList)
    /\ UNCHANGED <<capacity, hits, misses, now, getVars, found, notFound>>

\* Set, lines 116-156
Set(K, V, T, n) ==
    /\ calls < n
    /\ calls' = calls + 1
    /\ \E k \in K, v \in V, ttl \in T : SetUpdate(k, v, ttl) \/ SetInsert(k, v, ttl)

\* ------------------------------------------------------------- Remove
\* Remove, lines 159-167
RemoveKey(k) ==
    /\ IF items[k] # Nil
          THEN LET c == EvictElement(Cache, items[k])
               IN  /\ Install(c, Refs(element))
                   /\ ret' = [op |-> "Remove", ok |-> TRUE]
                   /\ destroyed' = destroyed + Len(evictionList) - Len(c.evictionList)
          ELSE /\ UNCHANGED <<items, evictionList, elems, totalSize, evictions, destroyed>>
               /\ ret' = [op |-> "Remove", ok |-> FALSE]
    /\ recency' = Without(recency, k)
    /\ expect' = [expect EXCEPT ![k] = NoEntry]
    /\ issued' = Disown(issued, {k})
    /\ UNCHANGED <<capacity, hits, misses, now, getVars, found, notFound>>

Remove(K, n) ==
    /\ calls < n
    /\ calls' = calls + 1
    /\ \E k \in K : RemoveKey(k)

\* -------------------------------------------------------------- Clear
\* Clear, lines 170-178
ClearResettingStats(n) ==
    /\ calls < n
    /\ calls' = calls + 1
    /\ items' = [k \in Keys |-> Nil]
    /\ evictionList' = <<>>
    /\ totalSize' = 0
    /\ hits' = 0 /\ misses' = 0 /\ evictions' = 0
    /\ elems' = Collect(elems, <<>>, [k \in Keys |-> Nil], Refs(element))
    /\ ret' = [op |-> "Clear", ok |-> TRUE]
    /\ recency' = <<>>
    /\ expect' = [k \in Keys |-> NoEntry]
    /\ issued' = Disown(issued, Keys)
    /\ UNCHANGED <<capacity, now, getVars, destroyed, found, notFound>>
Clear(n) ==
    /\ calls < n
    /\ calls' = calls + 1
    /\ items' = [k \in Keys |-> Nil]
    /\ evictionList' = <<>>
    /\ totalSize' = 0
    /\ elems' = Collect(elems, <<>>, [k \in Keys |-> Nil], Refs(element))
    /\ ret' = [op |-> "Clear", ok |-> TRUE]
    /\ recency' = <<>>
    /\ expect' = [k \in Keys |-> NoEntry]
    /\ issued' = Disown(issued, Keys)
    /\ UNCHANGED <<capacity, hits, misses, evictions, now, getVars,
                   destroyed, found, notFound>>

\* ---------------------------------------------------------------- Get
\* Get callers are interchangeable: a caller is idle only if those after it are.
Before(q, p) == q = "g1" /\ p = "g2"

Started == hits + misses + Cardinality({p \in Procs : pc[p] # "idle"})

\* Get, lines 84-86: the probe of the index under the read lock
GetLookup(p, K, n) ==
    /\ pc[p] = "idle"
    /\ Started < n
    /\ \A q \in Procs : Before(q, p) => pc[q] # "idle"
    /\ \E k \in K :
         /\ key' = [key EXCEPT ![p] = k]
         /\ element' = [element EXCEPT ![p] = items[k]]
         /\ issued' = [issued EXCEPT ![p] = expect[k] # NoEntry]
    /\ pc' = [pc EXCEPT ![p] = "probed"]
    /\ UNCHANGED <<cacheVars, now, item, ret, calls, recency, expect, destroyed, found, notFound>>

\* What the caller's locals are once Get has returned.
Return(p) ==
    /\ pc' = [pc EXCEPT ![p] = "idle"]
    /\ key' = [key EXCEPT ![p] = ""]
    /\ element' = [element EXCEPT ![p] = Nil]
    /\ item' = [item EXCEPT ![p] = NoItem]

\* Get, lines 88-93: the key was not in the index
GetAbsent(p) ==
    /\ pc[p] = "probed"
    /\ element[p] = Nil
    /\ misses' = misses + 1
    /\ notFound' = notFound + 1
    /\ ret' = [op |-> "Get", ok |-> FALSE]
    /\ Return(p)
    /\ UNCHANGED calls
    /\ issued' = [issued EXCEPT ![p] = FALSE]
    /\ UNCHANGED <<capacity, items, evictionList, elems, totalSize, hits,
                   evictions, now, recency, expect, destroyed, found>>

\* Get, line 95: item := element.Value.(*CacheItem), no lock held.  The read
\* races with Set's write of element.Value (line 140); it yields the item
\* stored before or after that write, which is this step taken before or after
\* SetUpdate.
GetLoadItem(p) ==
    /\ pc[p] = "probed"
    /\ element[p] # Nil
    /\ item' = [item EXCEPT ![p] = elems[element[p]]]
    /\ pc' = [pc EXCEPT ![p] = "loaded"]
    /\ UNCHANGED <<cacheVars, now, key, element, ret, calls, histVars>>

\* Get, lines 98-104: the item read has expired
GetExpired(p) ==
    /\ pc[p] = "loaded"
    /\ IsExpired(item[p], now)
    /\ LET c == EvictElement(Cache, element[p])
       IN  /\ Install(c, Refs([element EXCEPT ![p] = Nil]))
           /\ destroyed' = destroyed + Len(evictionList) - Len(c.evictionList)
    /\ misses' = misses + 1
    /\ notFound' = notFound + 1
    /\ ret' = [op |-> "Get", ok |-> FALSE]
    /\ recency' = Without(recency, key[p])
    /\ LET own == expect[key[p]] = <<item[p].ExpiresAt>>
       IN  /\ expect' = [expect EXCEPT ![key[p]] = IF own THEN NoEntry ELSE @]
           /\ issued' = [Disown(issued, IF own THEN {key[p]} ELSE {}) EXCEPT ![p] = FALSE]
    /\ Return(p)
    /\ UNCHANGED calls
    /\ UNCHANGED <<capacity, hits, now, found>>

\* Get, lines 106-112: the item read has not expired
GetHit(p) ==
    /\ pc[p] = "loaded"
    /\ ~IsExpired(item[p], now)
    /\ evictionList' = MoveToFront(evictionList, element[p])
    /\ elems' = Collect(elems, evictionList, items, Refs([element EXCEPT ![p] = Nil]))
    /\ hits' = hits + 1
    /\ found' = found + 1
    /\ ret' = [op |-> "Get", ok |-> TRUE]
    /\ recency' = IF key[p] \in Range(recency) THEN Touch(recency, key[p]) ELSE recency
    /\ Return(p)
    /\ UNCHANGED calls
    /\ issued' = [issued EXCEPT ![p] = FALSE]
    /\ UNCHANGED <<capacity, items, totalSize, misses, evictions, now,
                   expect, destroyed, notFound>>

\* ---------------------------------------------------------------- time
Tick ==
    /\ now < MaxTime
    /\ now' = now + 1
    /\ UNCHANGED <<cacheVars, getVars, ret, calls, histVars>>

\* ------------------------------------------------------------ worker pool
NoJob == [w |-> 0, r |-> [req |-> 0, handler |-> 0], done |-> 0]

\* Enqueue, lines 66-77: the job of caller c, which passes its own response writer,
\* request and handler; the handler travels in the request's context
Job(c) == [w |-> c, r |-> [req |-> c, handler |-> c], done |-> c]

\* NewWorkerPool, lines 26-28
WorkerCount(n) == IF n <= 0 THEN DefaultWorkers ELSE n

QueueCapacityThrice(n) == n * 3

\* NewWorkerPool, line 31: make(chan *job, maxWorkers*2)
QueueCapacity(n) == n * 2

\* no pool is constructed
NoPool ==
    /\ maxWorkers = 0
    /\ jobQueue = <<>>
    /\ closed = FALSE
    /\ wg = 0
    /\ worker = <<>>
    /\ running = <<>>
    /\ caller = [c \in Callers |-> "idle"]
    /\ done = [c \in Callers |-> FALSE]
    /\ stop = "idle"
    /\ served = [c \in Callers |-> <<>>]
    /\ blocked = {}

\* NewWorkerPool and start, lines 25-47
NewWorkerPool(sizes) ==
    \E n \in sizes :
        /\ maxWorkers = WorkerCount(n)
        /\ jobQueue = <<>>
        /\ closed = FALSE
        /\ wg = WorkerCount(n)
        /\ worker = [i \in 1..WorkerCount(n) |-> "recv"]
        /\ running = [i \in 1..WorkerCount(n) |-> NoJob]
        /\ caller = [c \in Callers |-> "idle"]
        /\ done = [c \in Callers |-> FALSE]
        /\ stop = "idle"
        /\ served = [c \in Callers |-> <<>>]
        /\ blocked = {}

\* ServeHTTP calls Enqueue, which builds the job and reaches the send (lines 64-80).
\* Callers are numbered in the order of their calls.
EnqueueStart(c) ==
    /\ caller[c] = "idle"
    /\ \A d \in Callers : d < c => caller[d] # "idle"
    /\ caller' = [caller EXCEPT ![c] = "send"]
    /\ blocked' = IF ~closed /\ Len(jobQueue) >= QueueCapacity(maxWorkers)
                     THEN blocked \cup {c} ELSE blocked
    /\ UNCHANGED <<maxWorkers, jobQueue, closed, wg, worker, running, done, stop, served>>

\* wp.jobQueue <- job, line 80: proceeds when the buffer has room
EnqueueSend(c) ==
    /\ caller[c] = "send"
    /\ ~closed
    /\ Len(jobQueue) < QueueCapacity(maxWorkers)
    /\ jobQueue' = Append(jobQueue, Job(c))
    /\ caller' = [caller EXCEPT ![c] = "wait"]
    /\ UNCHANGED <<maxWorkers, closed, wg, worker, running, done, stop, served, blocked>>

\* wp.jobQueue <- job, line 80, on a closed channel: the send panics, whether the
\* caller arrives after the close or was blocked in the send when it happened
EnqueuePanic(c) ==
    /\ caller[c] = "send"
    /\ closed
    /\ caller' = [caller EXCEPT ![c] = "panic"]
    /\ UNCHANGED <<maxWorkers, jobQueue, closed, wg, worker, running, done, stop, served,
                   blocked>>

\* <-done, line 83
EnqueueReturn(c) ==
    /\ caller[c] = "wait"
    /\ done[c]
    /\ caller' = [caller EXCEPT ![c] = "returned"]
    /\ UNCHANGED <<maxWorkers, jobQueue, closed, wg, worker, running, done, stop, served,
                   blocked>>

\* a worker that closes job.done as soon as it has received the job
WorkerReceiveSignalling(i) ==
    /\ worker[i] = "recv"
    /\ \A j \in DOMAIN worker : j < i => worker[j] # "recv"
    /\ jobQueue # <<>>
    /\ running' = [running EXCEPT ![i] = Head(jobQueue)]
    /\ jobQueue' = Tail(jobQueue)
    /\ worker' = [worker EXCEPT ![i] = "serve"]
    /\ done' = [done EXCEPT ![Head(jobQueue).done] = TRUE]
    /\ UNCHANGED <<maxWorkers, closed, wg, caller, stop, served, blocked>>

\* for job := range wp.jobQueue, line 53: a job is received (a closed channel
\* still hands out the jobs in its buffer). Of the workers waiting at the range,
\* which are alike, the lowest numbered one stands for the one that receives.
WorkerReceive(i) ==
    /\ worker[i] = "recv"
    /\ \A j \in DOMAIN worker : j < i => worker[j] # "recv"
    /\ jobQueue # <<>>
    /\ running' = [running EXCEPT ![i] = Head(jobQueue)]
    /\ jobQueue' = Tail(jobQueue)
    /\ worker' = [worker EXCEPT ![i] = "serve"]
    /\ UNCHANGED <<maxWorkers, closed, wg, caller, done, stop, served, blocked>>

\* lines 55-56: the handler taken from the request's context runs to completion
\* with the job's response writer and request
WorkerServe(i) ==
    /\ worker[i] = "serve"
    /\ served' = [served EXCEPT ![running[i].done] =
                     Append(@, [by |-> i, w |-> running[i].w, r |-> running[i].r.req,
                                handler |-> running[i].r.handler])]
    /\ worker' = [worker EXCEPT ![i] = "signal"]
    /\ UNCHANGED <<maxWorkers, jobQueue, closed, wg, running, caller, done, stop, blocked>>

\* a worker that goes back to the range without closing job.done
WorkerSignalForgotten(i) ==
    /\ worker[i] = "signal"
    /\ running' = [running EXCEPT ![i] = NoJob]
    /\ worker' = [worker EXCEPT ![i] = "recv"]
    /\ UNCHANGED <<maxWorkers, jobQueue, closed, wg, caller, done, stop, served, blocked>>

\* close(job.done), line 59
WorkerSignal(i) ==
    /\ worker[i] = "signal"
    /\ done' = [done EXCEPT ![running[i].done] = TRUE]
    /\ running' = [running EXCEPT ![i] = NoJob]
    /\ worker' = [worker EXCEPT ![i] = "recv"]
    /\ UNCHANGED <<maxWorkers, jobQueue, closed, wg, caller, stop, served, blocked>>

\* a worker that leaves as soon as the channel is closed
WorkerExitOnClose(i) ==
    /\ worker[i] = "recv"
    /\ \A j \in DOMAIN worker : j < i => worker[j] # "recv"
    /\ closed
    /\ worker' = [worker EXCEPT ![i] = "exited"]
    /\ wg' = wg - 1
    /\ UNCHANGED <<maxWorkers, jobQueue, closed, running, caller, done, stop, served,
                   blocked>>

\* the range ends on a closed and drained channel; defer wp.wg.Done(), line 51
WorkerExit(i) ==
    /\ worker[i] = "recv"
    /\ \A j \in DOMAIN worker : j < i => worker[j] # "recv"
    /\ closed
    /\ jobQueue = <<>>
    /\ worker' = [worker EXCEPT ![i] = "exited"]
    /\ wg' = wg - 1
    /\ UNCHANGED <<maxWorkers, jobQueue, closed, running, caller, done, stop, served,
                   blocked>>

\* Stop, line 88 (Shutdown, called once by main): close(wp.jobQueue)
StopClose ==
    /\ stop = "idle"
    /\ closed' = TRUE
    /\ stop' = "wait"
    /\ UNCHANGED <<maxWorkers, jobQueue, wg, worker, running, caller, done, served, blocked>>

\* a Stop that returns without waiting for the workers
StopReturnNoWait ==
    /\ stop = "wait"
    /\ stop' = "returned"
    /\ UNCHANGED <<maxWorkers, jobQueue, closed, wg, worker, running, caller, done, served,
                   blocked>>

\* Stop, lines 89-91: wp.wg.Wait() returns when the counter is zero
StopReturn ==
    /\ stop = "wait"
    /\ wg = 0
    /\ stop' = "returned"
    /\ UNCHANGED <<maxWorkers, jobQueue, closed, wg, worker, running, caller, done, served,
                   blocked>>

\* --------------------------------------------------------- proxy pipeline
HeaderNames == {"Cache-Control", "Set-Cookie", "Expires", "X-Trace", "x-trace"}

\* an http.Header over the names the pipeline reads: name -> its values, in order
NoHeader == [n \in HeaderNames |-> <<>>]

\* Header.Get: the first value of the name, or the empty string (empty) if none
First(values, empty) == IF values = <<>> THEN empty ELSE values[1]
HeaderGet(h, n, empty) == First(h[n], empty)

\* A Cache-Control value is the sequence of its directives.
Directive(name) == [name |-> name, num |-> FALSE, arg |-> 0]
MaxAge(n)       == [name |-> "max-age", num |-> TRUE, arg |-> n]
MaxAgeBad       == [name |-> "max-age", num |-> FALSE, arg |-> 0]

\* strings.Contains(cacheControl, "no-store")
ContainsNoStore(value) == \E i \in 1..Len(value) : value[i].name = "no-store"

\* strings.HasSuffix on sequences of pieces
HasSuffix(str, suffix) ==
    /\ Len(suffix) <= Len(str)
    /\ SubSeq(str, Len(str) - Len(suffix) + 1, Len(str)) = suffix

\* a filter that admits a host only when a configured domain equals it
isDomainAllowedExact(host) ==
    \/ Len(allowed) = 0
    \/ \E i \in 1..Len(allowed) : host = allowed[i]

\* isDomainAllowed, lines 193-207
isDomainAllowed(host) ==
    \/ Len(allowed) = 0
    \/ \E i \in 1..Len(allowed) : HasSuffix(host, allowed[i])

\* a cacheability test that looks at the method only
isCacheableByMethod(r) == r.Method \in {"GET", "HEAD"}

\* isCacheable, lines 210-228
isCacheable(r) ==
    /\ r.Method \in {"GET", "HEAD"}
    /\ First(r.Authorization, "") = ""
    /\ ~ContainsNoStore(First(r.CacheControl, <<>>))

\* isResponseCacheable, lines 231-249
isResponseCacheable(resp) ==
    /\ resp.StatusCode = 200
    /\ ~ContainsNoStore(HeaderGet(resp.Header, "Cache-Control", <<>>))
    /\ HeaderGet(resp.Header, "Set-Cookie", "") = ""

\* http.NewRequest accepts a method that is a token; among the methods of the
\* runs only "BAD METHOD", which holds a space, is none
validMethod(m) == m # "BAD METHOD"

\* createCacheKey, lines 252-255
createCacheKey(r) == r.Method \o ":" \o r.URL.String

\* the layouts calculateTTL tries on the Expires header, lines 340-345
Layouts == {"RFC1123", "RFC1123Z", "Mon, 02-Jan-2006 15:04:05 MST",
            "Monday, 02-Jan-2006 15:04:05 MST"}
NoExpires == [layout |-> "", at |-> 0]

\* calculateTTL, lines 321-356, at clock t: the first max-age directive that
\* parses, else a parsable Expires minus the clock, else the configured TTL
calculateTTL(resp, t) ==
    LET cc   == HeaderGet(resp.Header, "Cache-Control", <<>>)
        ages == {i \in 1..Len(cc) : cc[i].name = "max-age" /\ cc[i].num}
        ex   == HeaderGet(resp.Header, "Expires", NoExpires)
    IN  IF ages # {} THEN cc[CHOOSE i \in ages : \A j \in ages : i <= j].arg
        ELSE IF ex.layout \in Layouts THEN ex.at - t
        ELSE cacheTTL

\* cacheResponse, lines 296-300: the TTL handed to cache.Set
StoreTTL(resp, t) == IF calculateTTL(resp, t) <= 0 THEN cacheTTL ELSE calculateTTL(resp, t)

\* The wire format is a sequence of tokens: the status line, one header line per
\* value, the empty line, then the tokens of the body.
StatusLine(code)        == [status |-> code]
HeaderLine(name, value) == [name |-> name, value |-> value]
EmptyLine               == [empty |-> TRUE]
IsStatusLine(tok) == DOMAIN tok = {"status"}
IsHeaderLine(tok) == DOMAIN tok = {"name", "value"}

HeaderOrder == <<"Cache-Control", "Expires", "Set-Cookie", "X-Trace", "x-trace">>

\* textproto.CanonicalMIMEHeaderKey, which Header.Add applies to the name (line
\* 412), on the names of the runs
CanonicalMIMEHeaderKey(name) == IF name = "x-trace" THEN "X-Trace" ELSE name

RECURSIVE HeaderLines(_, _)
HeaderLines(h, names) ==
    IF names = <<>> THEN <<>>
    ELSE [i \in 1..Len(h[Head(names)]) |-> HeaderLine(Head(names), h[Head(names)][i])]
         \o HeaderLines(h, Tail(names))

\* serializeResponse, lines 358-383, when the range over the map (line 370) gives
\* the names in this order
serializeInOrder(resp, names) ==
    <<StatusLine(resp.StatusCode)>> \o HeaderLines(resp.Header, names)
        \o <<EmptyLine>> \o resp.Body

\* serializeResponse, lines 358-383 (the headers in one of the orders a map
\* iteration can give)
serializeResponse(resp) == serializeInOrder(resp, HeaderOrder)

NoCachedResponse == [err |-> TRUE, StatusCode |-> 0, Header |-> NoHeader, Body |-> <<>>]

\* the values Header.Add has collected under one name from the header lines, in
\* order
RECURSIVE ValuesOf(_, _)
ValuesOf(lines, n) ==
    IF lines = <<>> THEN <<>>
    ELSE (IF IsHeaderLine(Head(lines)) /\ CanonicalMIMEHeaderKey(Head(lines).name) = n
             THEN <<Head(lines).value>> ELSE <<>>) \o ValuesOf(Tail(lines), n)

\* a parse that splits at the last empty line
parseCachedResponseGreedy(data) ==
    LET cuts == {i \in 1..Len(data) : data[i] = EmptyLine}
    IN  IF cuts = {} THEN NoCachedResponse
        ELSE LET cut  == CHOOSE i \in cuts : \A j \in cuts : i >= j
                 head == SubSeq(data, 1, cut - 1)
             IN  IF head = <<>> \/ ~IsStatusLine(head[1]) THEN NoCachedResponse
                 ELSE [err |-> FALSE,
                       StatusCode |-> head[1].status,
                       Header |-> [n \in HeaderNames |-> ValuesOf(Tail(head), n)],
                       Body |-> SubSeq(data, cut + 1, Len(data))]

\* parseCachedResponse, lines 386-424: split at the first empty line, read the
\* status from the first line before it and the headers from the others
parseCachedResponse(data) ==
    LET cuts == {i \in 1..Len(data) : data[i] = EmptyLine}
    IN  IF cuts = {} THEN NoCachedResponse
        ELSE LET cut  == CHOOSE i \in cuts : \A j \in cuts : i <= j
                 head == SubSeq(data, 1, cut - 1)
             IN  IF head = <<>> \/ ~IsStatusLine(head[1]) THEN NoCachedResponse
                 ELSE [err |-> FALSE,
                       StatusCode |-> head[1].status,
                       Header |-> [n \in HeaderNames |-> ValuesOf(Tail(head), n)],
                       Body |-> SubSeq(data, cut + 1, Len(data))]

NoRequest  == [Method |-> "", Param |-> "", URL |-> NoURL, Authorization |-> <<>>,
               CacheControl |-> <<>>]
NoUpstream == [StatusCode |-> 0, Header |-> NoHeader, Body |-> <<>>]
NoResponse == [status |-> 0, header |-> NoHeader, marker |-> FALSE, xcache |-> "",
               body |-> <<>>]

\* no pipeline is constructed
NoPipe ==
    /\ allowed = <<>>
    /\ cacheTTL = 0
    /\ stage = "idle"
    /\ req = NoRequest
    /\ up = NoUpstream
    /\ out = NoResponse
    /\ handled = 0
    /\ trace = <<>>

\* NewProxyHandler, lines 28-57, with the configuration main has validated
NewProxyHandler(lists, ttls) ==
    /\ allowed \in lists
    /\ cacheTTL \in ttls
    /\ stage = "idle"
    /\ req = NoRequest
    /\ up = NoUpstream
    /\ out = NoResponse
    /\ handled = 0
    /\ trace = <<>>

\* http.Error(w, msg, code): the status and the message, then handleRequest returns
Error(msg, code) ==
    /\ out' = [out EXCEPT !.status = code, !.body = <<msg>>]
    /\ stage' = "done"

\* a worker enters handleRequest with a request of R (line 71)
Arrive(R, n) ==
    /\ stage = "idle"
    /\ handled < n
    /\ handled' = handled + 1
    /\ req' \in R
    /\ stage' = "resolve"
    /\ UNCHANGED <<allowed, cacheTTL, up, out, trace>>
    /\ UNCHANGED vars

\* a resolution that takes the request's own URL as it is
ResolveUnchecked ==
    /\ stage = "resolve"
    /\ IF req.Param # ""
          THEN IF Parse(req.Param).err
                  THEN Error("Invalid URL format", 400)
                       /\ trace' = Append(trace, "status")
                       /\ UNCHANGED req
                  ELSE /\ req' = [req EXCEPT !.URL = Parse(req.Param).url]
                       /\ stage' = "filter"
                       /\ UNCHANGED <<out, trace>>
          ELSE /\ stage' = "filter"
               /\ UNCHANGED <<req, out, trace>>
    /\ UNCHANGED <<allowed, cacheTTL, up, handled>>
    /\ UNCHANGED vars

\* lines 73-89: the target is the url parameter when it is not empty, else the
\* request's own URL, which must then have a scheme and a host
Resolve ==
    /\ stage = "resolve"
    /\ IF req.Param # ""
          THEN IF Parse(req.Param).err
                  THEN Error("Invalid URL format", 400)
                       /\ trace' = Append(trace, "status")
                       /\ UNCHANGED req
                  ELSE /\ req' = [req EXCEPT !.URL = Parse(req.Param).url]
                       /\ stage' = "filter"
                       /\ UNCHANGED <<out, trace>>
          ELSE IF req.URL.Scheme = "" \/ req.URL.Host = <<>>
                  THEN Error("Invalid proxy request. URL must include scheme and host.", 400)
                       /\ trace' = Append(trace, "status")
                       /\ UNCHANGED req
                  ELSE /\ stage' = "filter"
                       /\ UNCHANGED <<req, out, trace>>
    /\ UNCHANGED <<allowed, cacheTTL, up, handled>>
    /\ UNCHANGED vars

\* lines 92-95
Filter ==
    /\ stage = "filter"
    /\ IF isDomainAllowed(req.URL.Host)
          THEN /\ stage' = "cache"
               /\ trace' = Append(trace, "filter")
               /\ UNCHANGED out
          ELSE /\ Error("Domain not allowed", 403)
               /\ trace' = trace \o <<"filter", "status">>
    /\ UNCHANGED <<allowed, cacheTTL, req, up, handled>>
    /\ UNCHANGED vars

\* line 98: a request that is not cacheable goes to the fetch
Bypass ==
    /\ stage = "cache"
    /\ ~isCacheable(req)
    /\ stage' = "fetch"
    /\ UNCHANGED <<allowed, cacheTTL, req, up, out, handled, trace>>
    /\ UNCHANGED vars

\* lines 99-102: p.cache.Get(cacheKey) is called
LookupStart(n) ==
    /\ stage = "cache"
    /\ isCacheable(req)
    /\ GetLookup("g1", {createCacheKey(req)}, n)
    /\ stage' = "get"
    /\ trace' = Append(trace, "get")
    /\ UNCHANGED <<allowed, cacheTTL, req, up, out, handled>>

\* inside cache.Get
LookupLoad ==
    /\ stage = "get"
    /\ GetLoadItem("g1")
    /\ UNCHANGED pipeVars

\* cache.Get returned not found (line 132)
LookupMiss ==
    /\ stage = "get"
    /\ GetAbsent("g1") \/ GetExpired("g1")
    /\ stage' = "fetch"
    /\ UNCHANGED <<allowed, cacheTTL, req, up, out, handled, trace>>

\* a lookup that answers 500 when the stored bytes do not parse
LookupHitFailing ==
    /\ stage = "get"
    /\ GetHit("g1")
    /\ LET cached == parseCachedResponse(item["g1"].Value)
       IN  IF cached.err
              THEN /\ Error("Error parsing cached response", 500)
                   /\ trace' = trace \o <<"unparsed", "status">>
              ELSE /\ out' = [status |-> cached.StatusCode, header |-> cached.Header,
                              marker |-> FALSE, xcache |-> "HIT", body |-> cached.Body]
                   /\ trace' = trace \o <<"header", "xcache", "status", "body">>
                   /\ stage' = "done"
    /\ UNCHANGED <<allowed, cacheTTL, req, up, handled>>

\* a replay that also sets the proxy's marker header
LookupHitMarked ==
    /\ stage = "get"
    /\ GetHit("g1")
    /\ LET cached == parseCachedResponse(item["g1"].Value)
       IN  IF cached.err
              THEN /\ stage' = "fetch"
                   /\ trace' = Append(trace, "unparsed")
                   /\ UNCHANGED out
              ELSE /\ out' = [status |-> cached.StatusCode, header |-> cached.Header,
                              marker |-> TRUE, xcache |-> "HIT", body |-> cached.Body]
                   /\ trace' = trace \o <<"header", "xcache", "status", "body">>
                   /\ stage' = "done"
    /\ UNCHANGED <<allowed, cacheTTL, req, up, handled>>

\* cache.Get returned an item, lines 103-130: it is replayed to the client, or,
\* if it does not parse, the failure is logged and the request goes to the fetch
LookupHit ==
    /\ stage = "get"
    /\ GetHit("g1")
    /\ LET cached == parseCachedResponse(item["g1"].Value)
       IN  IF cached.err
              THEN /\ stage' = "fetch"
                   /\ trace' = Append(trace, "unparsed")
                   /\ UNCHANGED out
              ELSE /\ out' = [status |-> cached.StatusCode, header |-> cached.Header,
                              marker |-> FALSE, xcache |-> "HIT", body |-> cached.Body]
                   /\ trace' = trace \o <<"header", "xcache", "status", "body">>
                   /\ stage' = "done"
    /\ UNCHANGED <<allowed, cacheTTL, req, up, handled>>

\* a failed fetch that is tried a second time before it is reported
FetchFailsRetrying ==
    /\ stage = "fetch"
    /\ IF validMethod(req.Method)
          THEN /\ Error("Error forwarding request", 502)
               /\ trace' = trace \o <<"fetch", "fetch", "status">>
          ELSE /\ Error("Error creating proxy request", 500)
               /\ trace' = Append(trace, "status")
    /\ UNCHANGED <<allowed, cacheTTL, req, up, handled>>
    /\ UNCHANGED vars

\* lines 136-147: the request is cloned, which fails if http.NewRequest rejects
\* its method, and sent; the fetch fails (always, for a target without a scheme)
FetchFails ==
    /\ stage = "fetch"
    /\ IF validMethod(req.Method)
          THEN /\ Error("Error forwarding request", 502)
               /\ trace' = trace \o <<"fetch", "status">>
          ELSE /\ Error("Error creating proxy request", 500)
               /\ trace' = Append(trace, "status")
    /\ UNCHANGED <<allowed, cacheTTL, req, up, handled>>
    /\ UNCHANGED vars

\* lines 136-162: the fetch returns a response of U, whose headers, the proxy's
\* two headers and whose status go to the client
Fetch(U) ==
    /\ stage = "fetch"
    /\ validMethod(req.Method)
    /\ req.URL.Scheme # ""
    /\ \E u \in U :
         /\ up' = u
         /\ out' = [status |-> u.StatusCode, header |-> u.Header, marker |-> TRUE,
                    xcache |-> "MISS", body |-> <<>>]
    /\ trace' = trace \o <<"fetch", "header", "marker", "xcache", "status">>
    /\ stage' = "read"
    /\ UNCHANGED <<allowed, cacheTTL, req, handled>>
    /\ UNCHANGED vars

\* lines 165-169: reading the body fails
ReadFails ==
    /\ stage = "read"
    /\ stage' = "done"
    /\ UNCHANGED <<allowed, cacheTTL, req, up, out, handled, trace>>
    /\ UNCHANGED vars

\* line 165: the body is read
Read ==
    /\ stage = "read"
    /\ stage' = "store"
    /\ UNCHANGED <<allowed, cacheTTL, req, up, out, handled, trace>>
    /\ UNCHANGED vars

\* line 172: the response is not stored
Skip ==
    /\ stage = "store"
    /\ ~(isCacheable(req) /\ isResponseCacheable(up))
    /\ stage' = "write"
    /\ UNCHANGED <<allowed, cacheTTL, req, up, out, handled, trace>>
    /\ UNCHANGED vars

\* a store that hands the cache no TTL
StoreForever(n) ==
    /\ stage = "store"
    /\ isCacheable(req) /\ isResponseCacheable(up)
    /\ Set({createCacheKey(req)}, {serializeResponse(up)}, {0}, n)
    /\ trace' = Append(trace, "set")
    /\ stage' = "write"
    /\ UNCHANGED <<allowed, cacheTTL, req, up, out, handled>>

\* lines 172-177 and cacheResponse, lines 294-318
Store(n) ==
    /\ stage = "store"
    /\ isCacheable(req) /\ isResponseCacheable(up)
    /\ Set({createCacheKey(req)}, {serializeResponse(up)}, {StoreTTL(up, now)}, n)
    /\ trace' = Append(trace, "set")
    /\ stage' = "write"
    /\ UNCHANGED <<allowed, cacheTTL, req, up, out, handled>>

\* lines 180-182
WriteBody ==
    /\ stage = "write"
    /\ out' = [out EXCEPT !.body = up.Body]
    /\ trace' = Append(trace, "body")
    /\ stage' = "done"
    /\ UNCHANGED <<allowed, cacheTTL, req, up, handled>>
    /\ UNCHANGED vars

\* handleRequest has returned: the worker is free for the next request
Finish ==
    /\ stage = "done"
    /\ stage' = "idle"
    /\ req' = NoRequest
    /\ up' = NoUpstream
    /\ out' = NoResponse
    /\ trace' = <<>>
    /\ UNCHANGED <<allowed, cacheTTL, handled>>
    /\ UNCHANGED vars

\* Time passes. The handling of a request reads the clock inside cache.Get and
\* again in cacheResponse and cache.Set, so time that passes between requests
\* and during the fetch stands for time passing anywhere.
Elapse ==
    /\ stage \in {"idle", "fetch"}
    /\ Tick
    /\ UNCHANGED pipeVars

\* The cache handed to NewProxyHandler holds an entry another user of it stored.
Seed(K, V) ==
    /\ handled = 0 /\ stage = "idle"
    /\ Set(K, V, {0}, 1)
    /\ UNCHANGED pipeVars

\* --------------------------------------------------------- specifications
GetStep == \E p \in Procs : GetAbsent(p) \/ GetLoadItem(p) \/ GetExpired(p) \/ GetHit(p)

GetStart(K, n) == \E p \in Procs : GetLookup(p, K, n)

\* ------------------------------------------------ the stored form, alone

NoWire ==
    /\ wire = "off"
    /\ wireResp = NoUpstream
    /\ wireData = <<>>
    /\ wireParsed = NoCachedResponse

\* a step of the round trip alone
OfWire(A) == A /\ UNCHANGED <<vars, poolVars, pipeVars, doVars, chainVars, loopVars>>

\* a CachedResponse{StatusCode, Header, Body} (lines 19-23) in hand
NewCachedResponse(R) ==
    /\ wire = "new"
    /\ wireResp \in R
    /\ wireData = <<>>
    /\ wireParsed = NoCachedResponse

\* data, err := p.serializeResponse(resp): the range over the header map gives
\* the names in any order
Serialize(Orders) ==
    /\ wire = "new"
    /\ \E names \in Orders : wireData' = serializeInOrder(wireResp, names)
    /\ wire' = "serialized"
    /\ UNCHANGED <<wireResp, wireParsed>>

\* cached, err := p.parseCachedResponse(data)
Deserialize ==
    /\ wire = "serialized"
    /\ wireParsed' = parseCachedResponse(wireData)
    /\ wire' = "parsed"
    /\ UNCHANGED <<wireResp, wireData>>

\* --------------------------------------------------- client.Do, alone

MaxRedirects == 10

NoDo ==
    /\ do = "off"
    /\ via = 0
    /\ chain = 0
    /\ answer = 0

\* a step of client.Do alone
OfDo(A) == A /\ UNCHANGED <<vars, poolVars, pipeVars, wireVars, chainVars, loopVars>>

\* resp, err := p.client.Do(proxyReq), line 143, against an upstream that
\* answers one of these numbers of redirects before its final response
NewDo(Chains) ==
    /\ do = "send"
    /\ via = 0
    /\ chain \in Chains
    /\ answer = 0

\* client.Do sends the request in hand and appends it to the requests made; the
\* upstream answers the next redirect of its chain, or its final response
DoSend ==
    /\ do = "send"
    /\ via' = via + 1
    /\ do' = IF via' <= chain THEN "redirected" ELSE "response"
    /\ UNCHANGED <<chain, answer>>

\* CheckRedirect, lines 32-38, which client.Do calls with the requests made so
\* far before it follows a redirect
CheckRedirect ==
    /\ do = "redirected"
    /\ do' = IF via >= MaxRedirects THEN "error" ELSE "send"
    /\ UNCHANGED <<via, chain, answer>>

\* handleRequest, lines 144-147 and line 162: 502 for an error of client.Do,
\* the status of the final response otherwise
DoReturn ==
    /\ do \in {"response", "error"}
    /\ answer' = IF do = "error" THEN 502 ELSE 200
    /\ do' = "done"
    /\ UNCHANGED <<via, chain>>

\* ------------------------------------------------- the handler chain

\* one minute, in clock ticks
Minute == 1

\* the peer addresses of the runs: RemoteAddr is "ip:port"
RemoteAddr(ip, port) == [ip |-> ip, port |-> port]
IPs == {"10.0.0.1", "10.0.0.2"}

\* RateLimit, lines 142-145: the address up to its last colon
ClientIP(addr) == addr.ip

NoClient == [count |-> 0, lastAccess |-> 0]
NoRq     == [RemoteAddr |-> RemoteAddr("", 0), Method |-> "", gzip |-> FALSE]
NoReply  == [status |-> 0, header |-> {}, body |-> ""]

\* CreateMiddlewareChain, lines 196-217, for a configuration that Validate
\* accepts (MaxConnections > 0): the middlewares, the outermost first
CreateMiddlewareChain == <<"Logger", "Compress", "CORS", "RateLimit">>

Middleware == IF hop \in DOMAIN CreateMiddlewareChain THEN CreateMiddlewareChain[hop]
              ELSE IF hop = Len(CreateMiddlewareChain) + 1 THEN "handler" ELSE "none"

NoChain ==
    /\ requestsPerMinute = 0
    /\ hop = 0
    /\ rq = NoRq
    /\ reply = NoReply
    /\ clients = [ip \in IPs |-> NoClient]
    /\ swept = 0
    /\ entered = 0
    /\ limited = <<>>

\* RateLimit(requestsPerMinute), lines 114-136: an empty clients map, and the
\* clean-up goroutine asleep since now
NewChain(Limits) ==
    /\ requestsPerMinute \in Limits
    /\ hop = 0
    /\ rq = NoRq
    /\ reply = NoReply
    /\ clients = [ip \in IPs |-> NoClient]
    /\ swept = now
    /\ entered = 0
    /\ limited = <<>>

\* a step of the handler chain alone
OfChain(A) == A /\ UNCHANGED <<vars, poolVars, pipeVars, wireVars, doVars, loopVars>>

\* the server calls the chain for a request
ChainServe(R, n) ==
    /\ hop = 0
    /\ entered < n
    /\ entered' = entered + 1
    /\ rq' \in R
    /\ reply' = NoReply
    /\ hop' = 1
    /\ UNCHANGED <<requestsPerMinute, clients, swept, limited>>

\* next.ServeHTTP(w, r)
CallNext ==
    /\ hop' = hop + 1
    /\ UNCHANGED <<rq, entered>>

\* the middleware returns without calling next
ReturnWith(status, body) ==
    /\ reply' = [reply EXCEPT !.status = status, !.body = body]
    /\ hop' = 0
    /\ UNCHANGED <<rq, entered>>

\* w.Header().Set for each of the pairs
HeaderSet(pairs) ==
    [reply EXCEPT !.header = {h \in @ : \A q \in pairs : h[1] # q[1]} \cup pairs]

\* Logger, lines 29-56, up to its call of next
Logger ==
    /\ Middleware = "Logger"
    /\ CallNext
    /\ UNCHANGED <<requestsPerMinute, reply, clients, swept, limited>>

\* Compress, lines 80-112, up to its call of next
Compress ==
    /\ Middleware = "Compress"
    /\ reply' = IF rq.gzip THEN HeaderSet({<<"Content-Encoding", "gzip">>}) ELSE reply
    /\ CallNext
    /\ UNCHANGED <<requestsPerMinute, clients, swept, limited>>

CORSHeaders ==
    {<<"Access-Control-Allow-Origin", "*">>,
     <<"Access-Control-Allow-Methods", "GET, POST, PUT, DELETE, OPTIONS">>,
     <<"Access-Control-Allow-Headers", "Content-Type, Authorization">>}

\* CORS, lines 59-77
CORS ==
    /\ Middleware = "CORS"
    /\ IF rq.Method = "OPTIONS"
          THEN /\ reply' = [HeaderSet(CORSHeaders) EXCEPT !.status = 200]
               /\ hop' = 0
               /\ UNCHANGED <<rq, entered>>
          ELSE /\ reply' = HeaderSet(CORSHeaders)
               /\ CallNext
    /\ UNCHANGED <<requestsPerMinute, clients, swept, limited>>

\* RateLimit's handler, lines 139-166
RateLimit ==
    /\ Middleware = "RateLimit"
    /\ LET ip == ClientIP(rq.RemoteAddr)
           c  == IF clients[ip] = NoClient THEN [count |-> 0, lastAccess |-> now]
                 ELSE clients[ip]
           n  == c.count + 1
       IN  /\ clients' = [clients EXCEPT ![ip] = [count |-> n, lastAccess |-> now]]
           /\ limited' = Append(limited, [ip |-> ip, at |-> now,
                                          pass |-> ~(n > requestsPerMinute)])
           /\ IF n > requestsPerMinute
                 THEN ReturnWith(429, "Rate limit exceeded")
                 ELSE CallNext /\ UNCHANGED reply
    /\ UNCHANGED <<requestsPerMinute, swept>>

\* RateLimit's clean-up goroutine, lines 126-136: it wakes up a minute or more
\* after it went to sleep
Sweep ==
    /\ now - swept >= Minute
    /\ swept' = now
    /\ clients' = [ip \in IPs |->
                      IF clients[ip] # NoClient /\ now - clients[ip].lastAccess > Minute
                         THEN NoClient ELSE clients[ip]]
    /\ UNCHANGED <<requestsPerMinute, hop, rq, reply, entered, limited>>

\* ProxyHandler.ServeHTTP at the end of the chain: the response of the fetch
\* path, lines 158-162
ProxyHeaders == {<<"X-Proxy-Server", "Go-Proxy-Server/1.0">>, <<"X-Cache", "MISS">>}

Handler ==
    /\ Middleware = "handler"
    /\ reply' = [HeaderSet(ProxyHeaders) EXCEPT !.status = 200]
    /\ hop' = 0
    /\ UNCHANGED <<requestsPerMinute, rq, clients, swept, entered, limited>>

\* --------------------------------------------------- Set, step by step

NoLoop == setting = "idle" /\ removed = {}

\* a step of the cache alone, with the entries it takes out of the index
Leaving ==
    {[Key |-> k, expired |-> IsExpired(elems[items[k]], now)] :
        k \in {x \in Keys : items[x] # Nil /\ items'[x] = Nil}}

Watched(A) ==
    /\ A
    /\ removed' = Leaving
    /\ UNCHANGED <<setting, poolVars, pipeVars, wireVars, doVars, chainVars>>

\* a step of a Set call that holds the lock, alone
OfLoop(A) == A /\ UNCHANGED <<removed, poolVars, pipeVars, wireVars, doVars, chainVars>>

\* Set, lines 116-148: under the lock, the update of a stored key, which
\* returns, or the insertion of a new one, which reaches the loop
SetEnter(K, V, T, n) ==
    /\ setting = "idle"
    /\ calls < n
    /\ calls' = calls + 1
    /\ \E k \in K, v \in V, ttl \in T :
         \/ SetUpdate(k, v, ttl) /\ UNCHANGED setting
         \/ /\ items[k] = Nil
            /\ LET it == CacheItem(k, v, ttl, now)
                   e  == NewElement
                   c1 == [Cache EXCEPT !.evictionList = PushFront(@, e),
                                       !.elems = (e :> it) @@ @,
                                       !.items = [@ EXCEPT ![k] = e],
                                       !.totalSize = @ + it.Size]
               IN  /\ Install(c1, Refs(element))
                   /\ recency' = Touch(recency, k)
                   /\ expect' = [expect EXCEPT ![k] = <<it.ExpiresAt>>]
                   /\ issued' = Disown(issued, {k})
            /\ setting' = "loop"
            /\ UNCHANGED <<capacity, hits, misses, now, getVars, ret, destroyed, found,
                           notFound>>

\* Set, lines 151-153: the loop condition holds, c.evictOldest()
SetEvict ==
    /\ setting = "loop"
    /\ OverCapacity(Cache, capacity)
    /\ LET c    == EvictOldest(Cache)
           left == Evicted(Cache, c)
       IN  /\ Install(c, Refs(element))
           /\ recency' = DropAll(recency, left)
           /\ expect' = [x \in Keys |-> IF x \in left THEN NoEntry ELSE expect[x]]
           /\ issued' = Disown(issued, left)
           /\ destroyed' = destroyed + Len(evictionList) - Len(c.evictionList)
    /\ UNCHANGED <<capacity, hits, misses, now, getVars, ret, calls, found, notFound,
                   setting>>

\* Set, lines 151 and 155: the loop condition fails, return true (the deferred
\* Unlock runs)
SetReturn ==
    /\ setting = "loop"
    /\ ~OverCapacity(Cache, capacity)
    /\ setting' = "idle"
    /\ ret' = [op |-> "Set", ok |-> TRUE]
    /\ UNCHANGED <<cacheVars, now, getVars, calls, histVars>>

\* a call that takes the lock: it waits while a Set holds it
Unlocked(A) == setting = "idle" /\ A /\ UNCHANGED setting

NoEdge == NoWire /\ NoDo /\ NoChain /\ NoLoop

\* a step of the cache alone
OfCache(A) == A /\ UNCHANGED <<poolVars, pipeVars, edgeVars>>

\* a step of the worker pool alone
OfPool(A) == A /\ UNCHANGED <<vars, pipeVars, edgeVars>>

\* a step of the pipeline, and of the cache when the pipeline calls it
OfPipe(A) == A /\ UNCHANGED <<poolVars, edgeVars>>

\* Any number of goroutines: every interleaving the locks allow.
Init == New(Capacities) /\ NoPool /\ NoPipe /\ NoEdge

Next ==
    \/ OfCache(Set(ConcKeys, ConcValues, ConcTTLs, MaxCalls))
    \/ OfCache(Remove(ConcKeys, MaxCalls))
    \/ OfCache(Clear(MaxCalls))
    \/ OfCache(GetStart(ConcKeys, MaxGets))
    \/ OfCache(GetStep)
    \/ OfCache(Tick)

Spec == Init /\ [][Next]_allVars

\* A sequential history: a call starts only when no Get is in progress.
AllIdle == \A p \in Procs : pc[p] = "idle"

SeqInit == New(SeqCapacities) /\ NoPool /\ NoPipe /\ NoEdge

SeqNext ==
    \/ OfCache(AllIdle /\ Set(SeqKeys, SeqValues, TTLs, MaxSeqCalls))
    \/ OfCache(AllIdle /\ Remove(SeqKeys, MaxSeqCalls))
    \/ OfCache(AllIdle /\ Clear(MaxSeqCalls))
    \/ OfCache(AllIdle /\ GetStart(SeqKeys, MaxSeqGets))
    \/ OfCache(GetStep)
    \/ OfCache(Tick)

SpecSeq == SeqInit /\ [][SeqNext]_allVars

\* A sequential history over two keys whose Sets overwrite values by values of
\* another length.
UpdNext ==
    \/ OfCache(AllIdle /\ Set(UpdKeys, Values, TTLs, MaxSeqCalls))
    \/ OfCache(AllIdle /\ Remove(UpdKeys, MaxSeqCalls))
    \/ OfCache(AllIdle /\ Clear(MaxSeqCalls))
    \/ OfCache(AllIdle /\ GetStart(UpdKeys, MaxSeqGets))
    \/ OfCache(GetStep)
    \/ OfCache(Tick)

SpecUpd == SeqInit /\ [][UpdNext]_allVars

\* The worker pool: callers enqueue one job each, and main may call Stop once.
NoCache == New({0})

PoolInit == NewWorkerPool(PoolSizes) /\ NoCache /\ NoPipe /\ NoEdge

RunNext ==
    \/ OfPool(\E c \in Callers : EnqueueStart(c))
    \/ OfPool(\E c \in Callers : EnqueueSend(c))
    \/ OfPool(\E c \in Callers : EnqueueReturn(c))
    \/ OfPool(\E i \in DOMAIN worker : WorkerReceive(i))
    \/ OfPool(\E i \in DOMAIN worker : WorkerServe(i))
    \/ OfPool(\E i \in DOMAIN worker : WorkerSignal(i))

PoolNext ==
    \/ RunNext
    \/ OfPool(\E c \in Callers : EnqueuePanic(c))
    \/ OfPool(\E i \in DOMAIN worker : WorkerExit(i))
    \/ OfPool(StopClose)
    \/ OfPool(StopReturn)

SpecPool == PoolInit /\ [][PoolNext]_allVars

\* The worker pool while Stop is not called: a goroutine that can run does run.
Fairness ==
    /\ WF_allVars(OfPool(\E c \in Callers : EnqueueSend(c) \/ EnqueueReturn(c)))
    /\ WF_allVars(OfPool(\E i \in DOMAIN worker :
                            WorkerReceive(i) \/ WorkerServe(i) \/ WorkerSignal(i)))

RunInit == NewWorkerPool(RunSizes) /\ NoCache /\ NoPipe /\ NoEdge

SpecRun == RunInit /\ [][RunNext]_allVars /\ Fairness

\* The worker pool when main may call Stop: a goroutine that can run does run,
\* also the caller whose send panics, the worker whose range has ended and Stop
\* at wg.Wait.
StopFairness ==
    /\ Fairness
    /\ WF_allVars(OfPool(\E c \in Callers : EnqueuePanic(c)))
    /\ WF_allVars(OfPool(\E i \in DOMAIN worker : WorkerExit(i)))
    /\ WF_allVars(OfPool(StopReturn))

StopNext ==
    \/ OfPool(\E c \in 1..MaxStopCallers : EnqueueStart(c))
    \/ OfPool(\E c \in Callers : EnqueueSend(c))
    \/ OfPool(\E c \in Callers : EnqueueReturn(c))
    \/ OfPool(\E c \in Callers : EnqueuePanic(c))
    \/ OfPool(\E i \in DOMAIN worker : WorkerReceive(i))
    \/ OfPool(\E i \in DOMAIN worker : WorkerServe(i))
    \/ OfPool(\E i \in DOMAIN worker : WorkerSignal(i))
    \/ OfPool(\E i \in DOMAIN worker : WorkerExit(i))
    \/ OfPool(StopClose)
    \/ OfPool(StopReturn)

SpecStop == RunInit /\ [][StopNext]_allVars /\ StopFairness

\* The pipeline, one request at a time, over a cache another user may have
\* seeded with a value of V under a key of K: requests of R, upstream answers of U.
Plain(body) == [StatusCode |-> 200, Header |-> NoHeader, Body |-> <<[raw |-> body]>>]

Answer(code, cc, cookie) ==
    [StatusCode |-> code,
     Header |-> [n \in HeaderNames |->
                    CASE n = "Cache-Control" -> cc
                      [] n = "Set-Cookie"    -> cookie
                      [] OTHER               -> <<>>],
     Body |-> <<[raw |-> "up"]>>]

Request(method, param, url, auth, cc) ==
    [Method |-> method, Param |-> param, URL |-> url, Authorization |-> auth,
     CacheControl |-> cc]

PipeNext(R, U, K, V) ==
    \/ OfPipe(Seed(K, V))
    \/ OfPipe(Arrive(R, MaxRequests))
    \/ OfPipe(Resolve)
    \/ OfPipe(Filter)
    \/ OfPipe(Bypass)
    \/ OfPipe(LookupStart(MaxRequests))
    \/ OfPipe(LookupLoad)
    \/ OfPipe(LookupMiss)
    \/ OfPipe(LookupHit)
    \/ OfPipe(FetchFails)
    \/ OfPipe(Fetch(U))
    \/ OfPipe(ReadFails)
    \/ OfPipe(Read)
    \/ OfPipe(Skip)
    \/ OfPipe(Store(MaxRequests + 1))
    \/ OfPipe(WriteBody)
    \/ OfPipe(Finish)
    \/ OfPipe(Elapse)

\* Target resolution and the domain filter: GET requests over every target and
\* both forms of the request line, and one POST, under three allow-lists.
AllowLists == {<<>>, <<ExampleCom>>, <<OtherOrg, <<>> >>}
CacheTTLs  == {1}

RouteRequests ==
    {Request("GET", t, u, <<>>, <<>>) :
        t \in Targets \cup {""}, u \in {OriginForm, AbsoluteForm}}
    \cup {Request("POST", "http://www.example.com/a", OriginForm, <<>>, <<>>)}

RouteInit == New({1}) /\ NoPool /\ NewProxyHandler(AllowLists, CacheTTLs) /\ NoEdge

RouteNext == PipeNext(RouteRequests, {Plain("up")}, {"GET:http://other.org/a"},
                      {serializeResponse(Plain("seed"))})

SpecRoute == RouteInit /\ [][RouteNext]_allVars

\* Cacheability: one target, GET and POST with every Authorization and
\* Cache-Control, and upstream answers of both statuses and every caching header.
PolicyRequests ==
    {Request(m, "http://www.example.com/a", OriginForm, auth, cc) :
        m \in {"GET", "POST"},
        auth \in {<<>>, <<"">>, <<"Basic dXNlcg==">>},
        cc \in {<<>>, << <<Directive("no-store")>> >>,
                << <<Directive("no-cache")>>, <<Directive("no-store")>> >>}}

Answers ==
    {Answer(200, <<>>, <<>>), Answer(404, <<>>, <<>>),
     Answer(200, << <<Directive("no-store")>> >>, <<>>),
     Answer(200, << <<MaxAge(1)>> >>, <<>>),
     Answer(200, <<>>, <<"sid=1">>)}

PolicyInit == New({1}) /\ NoPool /\ NewProxyHandler({<<>>}, CacheTTLs) /\ NoEdge

PolicyNext == PipeNext(PolicyRequests, Answers, {"GET:http://www.example.com/a"},
                       {serializeResponse(Plain("seed"))})

SpecPolicy == PolicyInit /\ [][PolicyNext]_allVars

\* Freshness: one cacheable GET and a POST, repeated as time passes, with upstream answers
\* of every TTL source, over a cache seeded with a response or with bytes that
\* are no response.
Dated(cc, expires) ==
    [StatusCode |-> 200,
     Header |-> [n \in HeaderNames |->
                    CASE n = "Cache-Control" -> cc
                      [] n = "Expires"       -> expires
                      [] OTHER               -> <<>>],
     Body |-> <<[raw |-> "up"]>>]

At(layout, t) == [layout |-> layout, at |-> t]

FreshRequests ==
    {Request(m, "http://www.example.com/a", OriginForm, <<>>, <<>>) : m \in {"GET", "POST"}}

FreshAnswers ==
    {Dated(<<>>, <<>>),
     Dated(<< <<MaxAge(2)>> >>, <<At("RFC1123", 1)>>),
     Dated(<< <<MaxAgeBad, MaxAge(1)>> >>, <<>>),
     Dated(<< <<MaxAge(0)>> >>, <<>>),
     Dated(<<>>, <<At("RFC1123", 1)>>),
     Dated(<<>>, <<At("RFC1123Z", 3)>>),
     Dated(<< <<MaxAgeBad>> >>, <<At("2006-01-02", 3)>>),
     Dated(<< <<Directive("public")>>, <<Directive("no-store")>> >>, <<>>)}

Junk == <<[raw |-> "junk"]>>

FreshInit == New({1}) /\ NoPool /\ NewProxyHandler({<<>>}, CacheTTLs) /\ NoEdge

FreshNext == PipeNext(FreshRequests, FreshAnswers, {"GET:http://www.example.com/a"},
                      {serializeResponse(Plain("seed")), Junk})

SpecFresh == FreshInit /\ [][FreshNext]_allVars

\* Keys and direct calls: GET and HEAD over targets that differ in case and in
\* the query string, and one call of ServeHTTP with a method that is no token.
KeyRequests ==
    {Request(m, t, OriginForm, <<>>, <<>>) : m \in {"GET", "HEAD"}, t \in KeyTargets}
    \cup {Request("BAD METHOD", "http://www.example.com/a", OriginForm, <<>>, <<>>)}

KeysInit == New({1}) /\ NoPool /\ NewProxyHandler({<<>>}, CacheTTLs) /\ NoEdge

KeysNext == PipeNext(KeyRequests, {Plain("up"), Answer(404, <<>>, <<>>)},
                     {"HEAD:http://www.example.com/a"},
                     {serializeResponse(Plain("seed"))})

SpecKeys == KeysInit /\ [][KeysNext]_allVars

\* The stored form alone: responses with one or two values under a name, with a
\* name that is not in canonical form, and with bodies that hold empty lines and
\* what reads as a status line or a header line.
Traced(code, upper, lower, cookie, body) ==
    [StatusCode |-> code,
     Header |-> [n \in HeaderNames |->
                    CASE n = "X-Trace"    -> upper
                      [] n = "x-trace"    -> lower
                      [] n = "Set-Cookie" -> cookie
                      [] OTHER            -> <<>>],
     Body |-> body]

WireHeaders ==
    {<< <<>>, <<>>, <<>> >>, << <<"a">>, <<>>, <<"sid=1">> >>,
     << <<"a", "b">>, <<>>, <<>> >>, << <<"b", "a">>, <<>>, <<"sid=1", "sid=2">> >>,
     << <<>>, <<"c">>, <<>> >>, << <<"a">>, <<"c">>, <<>> >>}

WireBodies ==
    {<<>>, <<[raw |-> "b"]>>, <<EmptyLine>>,
     <<[raw |-> "b"], EmptyLine, [raw |-> "c"]>>,
     <<EmptyLine, StatusLine(500), HeaderLine("X-Trace", "z"), EmptyLine>>}

WireResponses ==
    {Traced(code, h[1], h[2], h[3], body) :
        code \in {200, 404}, h \in WireHeaders, body \in WireBodies}

\* two of the orders the range over the map can give
WireOrders ==
    {HeaderOrder, <<"x-trace", "X-Trace", "Set-Cookie", "Expires", "Cache-Control">>}

WireInit ==
    NoCache /\ NoPool /\ NoPipe /\ NewCachedResponse(WireResponses) /\ NoDo /\ NoChain /\ NoLoop

WireNext ==
    \/ OfWire(Serialize(WireOrders))
    \/ OfWire(Deserialize)

SpecWire == WireInit /\ [][WireNext]_allVars

\* client.Do alone, against upstreams that redirect up to MaxChain times.
DoInit == NoCache /\ NoPool /\ NoPipe /\ NoWire /\ NewDo(0..MaxChain) /\ NoChain /\ NoLoop

DoNext ==
    \/ OfDo(DoSend)
    \/ OfDo(CheckRedirect)
    \/ OfDo(DoReturn)

SpecDo == DoInit /\ [][DoNext]_allVars

\* The chain main builds, for requests of two addresses, one of them from two
\* ports, while the clock advances and the clean-up goroutine runs.
ChainRequests ==
    {[RemoteAddr |-> RemoteAddr("10.0.0.1", 5000), Method |-> "GET", gzip |-> TRUE],
     [RemoteAddr |-> RemoteAddr("10.0.0.1", 5001), Method |-> "GET", gzip |-> FALSE],
     [RemoteAddr |-> RemoteAddr("10.0.0.2", 5000), Method |-> "GET", gzip |-> FALSE],
     [RemoteAddr |-> RemoteAddr("10.0.0.2", 5000), Method |-> "OPTIONS", gzip |-> FALSE]}

ChainInit == NoCache /\ NoPool /\ NoPipe /\ NoWire /\ NoDo /\ NewChain({1, 2}) /\ NoLoop

ChainNext ==
    \/ OfChain(ChainServe(ChainRequests, MaxHits))
    \/ OfChain(Logger)
    \/ OfChain(Compress)
    \/ OfChain(CORS)
    \/ OfChain(RateLimit)
    \/ OfChain(Handler)
    \/ OfChain(Sweep)
    \/ OfCache(Tick)

SpecChain == ChainInit /\ [][ChainNext]_allVars

\* A sequential history whose steps are watched for the entries they remove.
LazyNext ==
    \/ Watched(AllIdle /\ Set(SeqKeys, SeqValues, TTLs, MaxSeqCalls))
    \/ Watched(AllIdle /\ Remove(SeqKeys, MaxSeqCalls))
    \/ Watched(AllIdle /\ Clear(MaxSeqCalls))
    \/ Watched(AllIdle /\ GetStart(SeqKeys, MaxSeqGets))
    \/ Watched(GetStep)
    \/ Watched(Tick)

SpecLazy == SeqInit /\ [][LazyNext]_allVars

\* Set, one pass of its loop at a time, in caches of any capacity: the other
\* calls wait for the lock, the clock runs on, and the goroutine inside Set runs
\* when it can.
LoopInit == New(LoopCapacities) /\ NoPool /\ NoPipe /\ NoEdge

LoopNext ==
    \/ OfLoop(SetEnter(UpdKeys, SeqValues, TTLs, MaxSeqCalls))
    \/ OfLoop(SetEvict)
    \/ OfLoop(SetReturn)
    \/ OfLoop(Unlocked(Remove(UpdKeys, MaxSeqCalls)))
    \/ OfLoop(Unlocked(Clear(MaxSeqCalls)))
    \/ OfLoop(Tick /\ UNCHANGED setting)

SpecLoop ==
    /\ LoopInit /\ [][LoopNext]_allVars
    /\ WF_allVars(OfLoop(SetEvict)) /\ WF_allVars(OfLoop(SetReturn))

\* ------------------------------------------------------------ properties
\* the keys the index maps
StoredKeys == {k \in Keys : items[k] # Nil}

\* What a Get(k) that runs alone from this state returns: its item, or NoItem
\* when it returns not found.
Lookup(k) ==
    IF items[k] = Nil THEN NoItem
    ELSE IF IsExpired(elems[items[k]], now) THEN NoItem
    ELSE elems[items[k]]

\* C1: whenever no cache operation is inside its critical section, Size() is at
\* most Capacity(), and it is 0 for a cache of capacity 0, whatever Set, Get,
\* Remove and Clear calls concurrent callers have interleaved.
SizeWithinCapacity == Size <= Capacity /\ (Capacity = 0 => Size = 0)

\* a full cache that has evicted, holding an element a racing Get has cut off
\* from the index
SizeWithinCapacityReached ==
    /\ Capacity = 1 /\ Size = 1 /\ evictions > 0
    /\ \E e \in Range(evictionList) : items[elems[e].Key] # e

\* C2: in a sequential history a Set of a key that is not stored, made while the
\* cache holds exactly Capacity() entries, evicts exactly one entry, the least
\* recently touched one (touched: inserted or updated by Set, or returned by a
\* Get); every other entry stays as it was.
EvictsLeastRecentlyTouched ==
    [][\A k \in Keys, v \in Values, ttl \in TTLs :
         (Size = Capacity /\ calls' # calls /\ SetInsert(k, v, ttl)) =>
            LET order  == Touch(recency, k)
                victim == order[Len(order)]
            IN  /\ StoredKeys' = (StoredKeys \cup {k}) \ {victim}
                /\ Size' = Size
                /\ evictions' = evictions + 1
                /\ \A x \in StoredKeys \ {victim} :
                      /\ items'[x] = items[x]
                      /\ elems'[items[x]] = elems[items[x]]
                      /\ items[x] \in Range(evictionList')]_vars

\* capacity 2: Set a, Set b, Get a, Set c has left a and c, and evicted b
EvictsLeastRecentlyTouchedReached ==
    /\ Capacity = 2 /\ calls = 3 /\ hits = 1 /\ misses = 0 /\ evictions = 1
    /\ ret = [op |-> "Set", ok |-> TRUE]
    /\ StoredKeys = {"a", "c"}
    /\ evictionList = <<items["c"], items["a"]>>

\* C3: a Get is one atomic step: between its lookup of the key and its mutation
\* of the recency order, the index or the counters, no other cache operation
\* takes effect.
GetIsAtomic ==
    [][\A p \in Procs :
         (pc[p] # "idle" /\ pc'[p] = pc[p]) =>
            UNCHANGED <<items, evictionList, elems, totalSize, hits, misses, evictions>>]_vars

\* C4: the eviction counter equals the number of entries destroyed by Remove,
\* by capacity eviction or by lazy expiry (Clear not counted); none is counted
\* twice.
EvictionsCountDestroyed == evictions = destroyed

\* C5: a Get issued while the entry a Set stored is owed (no Remove, Clear,
\* capacity eviction or expiry of it since) and returning before its TTL has
\* elapsed finds it, an entry with ttl <= 0 being owed for ever; and a Get never
\* returns an item whose TTL has elapsed.
EntryLivesForItsTTL ==
    [][\A p \in Procs :
         (pc[p] # "idle" /\ pc'[p] = "idle") =>
            /\ (issued[p] /\ expect[key[p]] # NoEntry
                  /\ ~(expect[key[p]][1] # ZeroTime /\ now > expect[key[p]][1]))
               => found' = found + 1
            /\ found' = found + 1
               => ~(item[p].ExpiresAt # ZeroTime /\ now > item[p].ExpiresAt)]_vars

\* C6: a cache of capacity 0 is a pure sink: after any Sets, Size() is 0 and no
\* Get has returned found.
ZeroCapacityIsSink ==
    Capacity = 0 => (Size = 0 /\ found = 0 /\ \A k \in Keys : Lookup(k) = NoItem)

\* capacity 0: a Set has stored and evicted its entry, and a Get has completed
ZeroCapacityIsSinkReached ==
    Capacity = 0 /\ evictions > 0 /\ ret = [op |-> "Get", ok |-> FALSE]

\* C7: Clear leaves Size() = 0 and no stored key retrievable, and leaves the
\* hit, miss and eviction counters as they were.
ClearKeepsStats ==
    [][Clear(MaxCalls) =>
         /\ Size' = 0
         /\ \A k \in Keys : Lookup(k)' = NoItem
         /\ hits' = hits /\ misses' = misses /\ evictions' = evictions]_vars

\* a Clear has emptied a cache whose counters were not 0; the element a Get in
\* progress holds left the list through that Clear
ClearKeepsStatsReached ==
    /\ ret = [op |-> "Clear", ok |-> TRUE]
    /\ hits + misses > 0 /\ destroyed = 0 /\ evictions = 0
    /\ \E p \in Procs : pc[p] = "loaded"

\* C8: Hits is the number of completed Gets that returned found, Misses the
\* number that returned not found, and HitRate is Hits/(Hits+Misses), or 0 when
\* no Get has completed.
StatsCountGets ==
    /\ Stats.Hits = found
    /\ Stats.Misses = notFound
    /\ IF found + notFound = 0
          THEN Stats.HitRate = Ratio(0, 1)
          ELSE /\ Stats.HitRate.den # 0
               /\ SameRatio(Stats.HitRate, Ratio(found, found + notFound))

\* a hit and a miss have been counted: the hit rate is 1/2
StatsCountGetsReached == found = 1 /\ notFound = 1 /\ SameRatio(Stats.HitRate, Ratio(1, 2))

\* C9: Set returns true exactly when the key was not stored; on a stored key
\* (expired or not) it returns false, replaces value and expiry, promotes the
\* entry to most recently used and changes neither Size() nor the eviction
\* counter; a Get that follows returns the new value.
SetUpdatesInPlace ==
    [][\A k \in Keys, v \in Values, ttl \in TTLs :
         (calls' # calls /\ (SetUpdate(k, v, ttl) \/ SetInsert(k, v, ttl))) =>
            /\ ret'.ok = (k \notin StoredKeys)
            /\ k \in StoredKeys =>
                 /\ items'[k] = items[k]
                 /\ elems'[items[k]].Value = v
                 /\ elems'[items[k]].ExpiresAt = (IF ttl > 0 THEN now + ttl ELSE ZeroTime)
                 /\ evictionList'[1] = items[k]
                 /\ Size' = Size
                 /\ evictions' = evictions
                 /\ Lookup(k)'.Key = k /\ Lookup(k)'.Value = v]_vars

\* a Set has replaced, by a value of another length, the entry that was the
\* least recently used of two
SetUpdatesInPlaceReached ==
    /\ ret = [op |-> "Set", ok |-> FALSE]
    /\ Size = 2 /\ calls = 3 /\ now = 3
    /\ elems[evictionList[1]].Value = <<2, 2>>
    /\ elems[evictionList[1]].ExpiresAt = 4

\* C10: Remove of a stored key takes the entry off the list and out of the
\* index, adds one to the eviction counter and returns true, and a Get of the
\* key then misses; Remove of a key that is not stored returns false and changes
\* nothing.
RemoveDeletesEntry ==
    [][\A k \in Keys :
         (calls' # calls /\ RemoveKey(k)) =>
            IF k \in StoredKeys
               THEN /\ ret'.ok
                    /\ items'[k] = Nil
                    /\ items[k] \notin Range(evictionList')
                    /\ Size' = Size - 1
                    /\ evictions' = evictions + 1
                    /\ Lookup(k)' = NoItem
               ELSE /\ ~ret'.ok
                    /\ UNCHANGED <<cacheVars, getVars>>]_vars

\* a Remove has taken the only entry away
RemoveDeletesEntryReached ==
    /\ ret = [op |-> "Remove", ok |-> TRUE]
    /\ destroyed = 1 /\ Size = 0 /\ hits = 1


\* the sum of the Size fields of the entries the index maps
RECURSIVE SumOfSizes(_)
SumOfSizes(ks) ==
    IF ks = {} THEN 0
    ELSE LET k == CHOOSE x \in ks : TRUE
         IN  elems[items[k]].Size + SumOfSizes(ks \ {k})

\* C11: every stored entry has Size = len(Value), and the aggregate size the
\* cache tracks is the sum of the Size fields of the stored entries (never
\* negative, 0 for an empty store), under any interleaving of Set, Get, Remove
\* and Clear.
TotalSizeIsSumOfSizes ==
    /\ \A k \in StoredKeys : elems[items[k]].Size = Len(elems[items[k]].Value)
    /\ totalSize = SumOfSizes(StoredKeys)
    /\ totalSize >= 0


\* the workers inside the loop body (lines 55-59)
Executing == {i \in DOMAIN worker : worker[i] \in {"serve", "signal"}}

\* C12: an Enqueue call that has returned had its job's handler run exactly
\* once, by one worker, with the response writer, request and handler of that
\* call, and that run was complete before the return: no run with its arguments
\* is logged elsewhere, in progress or still to come.
EnqueueReturnsAfterOneRun ==
    \A c \in Callers :
        caller[c] = "returned" =>
            /\ Len(served[c]) = 1
            /\ served[c][1].by \in DOMAIN worker
            /\ served[c][1].w = c /\ served[c][1].r = c /\ served[c][1].handler = c
            /\ \A d \in Callers \ {c} :
                  \A k \in 1..Len(served[d]) :
                      served[d][k].w # c /\ served[d][k].r # c /\ served[d][k].handler # c
            /\ \A i \in DOMAIN worker : running[i].done # c
            /\ \A k \in 1..Len(jobQueue) : jobQueue[k].done # c

\* one caller has returned while a later caller's job is inside its handler
EnqueueReturnsAfterOneRunReached ==
    /\ caller[1] = "returned"
    /\ \E i \in DOMAIN worker : worker[i] = "serve" /\ running[i].done = 2
    /\ caller[2] = "wait"

\* C13: with N workers and a queue of capacity 2N, at most N handlers execute,
\* at most N + 2N jobs are executing or queued, and a caller at the send cannot
\* proceed while the queue holds 2N jobs.
PoolBoundsInFlight ==
    /\ maxWorkers > 0
    /\ Cardinality(Executing) <= maxWorkers
    /\ Len(jobQueue) <= 2 * maxWorkers
    /\ Cardinality(Executing) + Len(jobQueue) <= maxWorkers + 2 * maxWorkers
    /\ Len(jobQueue) = 2 * maxWorkers =>
          \A c \in Callers : caller[c] = "send" => ~ENABLED EnqueueSend(c)

\* one worker: a job executing, two queued and a fourth caller blocked at the send
PoolBoundsInFlightReached ==
    /\ maxWorkers = 1
    /\ Cardinality(Executing) = 1
    /\ Len(jobQueue) = 2
    /\ \E c \in blocked : caller[c] = "send"

\* C14: while Stop is not called, handlers terminate and goroutines are
\* scheduled fairly, every Enqueue call that has reached the send returns with
\* its job executed, however many callers there are.
EveryEnqueueReturns ==
    \A c \in Callers :
        (caller[c] = "send") ~> (caller[c] = "returned" /\ Len(served[c]) = 1)

\* a caller that found the queue full has returned
EveryEnqueueReturnsReached ==
    \E c \in blocked : caller[c] = "returned" /\ Len(served[c]) = 1

\* C15: once Stop has returned every worker has exited, none holds a job, and
\* no worker can take a step.
StopWaitsForWorkers ==
    stop = "returned" =>
        /\ \A i \in DOMAIN worker : worker[i] = "exited" /\ running[i] = NoJob
        /\ \A i \in DOMAIN worker :
              ~ENABLED (WorkerReceive(i) \/ WorkerServe(i) \/ WorkerSignal(i))

\* Stop has returned after a worker finished the job it was running when the
\* queue was closed
StopWaitsForWorkersReached ==
    /\ stop = "returned"
    /\ \E c \in Callers : caller[c] = "returned"
    /\ \E c \in Callers : caller[c] = "wait" /\ Len(served[c]) = 1 /\ done[c]

\* C16: an Enqueue call made after Stop has begun is rejected with an error: its
\* caller does not panic.
EnqueueAfterStopRejected ==
    \A c \in Callers : caller[c] # "panic"


\* what the handling of the request has done, as a set
Did(what) == \E i \in 1..Len(trace) : trace[i] = what

\* handleRequest is past target resolution
PastResolve == stage \notin {"idle", "resolve"}

\* the request has no target: its url parameter does not parse, or it has none
\* and its own URL lacks a scheme or a host
NoTarget(r) ==
    \/ r.Param # "" /\ Parse(r.Param).err
    \/ r.Param = "" /\ (r.URL.Scheme = "" \/ r.URL.Host = <<>>)

\* C17: a request whose url parameter fails to parse, or that has none and whose
\* own URL lacks a scheme or a host, is answered 400, and neither the domain
\* filter, the cache nor the upstream is consulted for it.
BadTargetIsRejected ==
    (PastResolve /\ NoTarget(req)) =>
        /\ stage = "done"
        /\ out.status = 400
        /\ trace = <<"status">>
        /\ ~Did("filter") /\ ~Did("get") /\ ~Did("set") /\ ~Did("fetch")
        /\ pc["g1"] = "idle"

\* the second request of a run, in absolute form with a url parameter that does
\* not parse, has been answered 400 while the cache holds an entry
BadTargetIsRejectedReached ==
    /\ stage = "done" /\ handled = 2
    /\ req.Param = ":bad" /\ req.URL = AbsoluteForm
    /\ out.status = 400
    /\ StoredKeys # {}

\* C18: a request whose url parameter is not an absolute URL (url=invalid-url)
\* is answered 400.
RelativeTargetIs400 ==
    (stage = "done" /\ req.Param = "invalid-url") => out.status = 400

\* the allow-list admits no suffix of the target host
Rejected == Len(allowed) > 0 /\ \A i \in 1..Len(allowed) : ~HasSuffix(req.URL.Host, allowed[i])

\* C19: a resolved request is answered 403 "Domain not allowed" exactly when
\* the allow-list is not empty and no configured domain is a suffix of the
\* target host; a rejected request causes no cache lookup, no cache store and
\* no fetch.
DomainFilterBySuffix ==
    (PastResolve /\ ~NoTarget(req)) =>
        /\ stage = "done" =>
              ((out.status = 403 /\ out.body = <<"Domain not allowed">>) <=> Rejected)
        /\ (Rejected /\ stage # "filter") =>
              /\ stage = "done"
              /\ trace = <<"filter", "status">>
              /\ pc["g1"] = "idle"
        /\ (~Rejected /\ stage # "filter") => Did("filter") /\ trace[1] = "filter"

\* under the allow-list [example.com] a request for other.org has been answered
\* 403 while the cache holds a response under its key
DomainFilterBySuffixReached ==
    /\ stage = "done"
    /\ allowed = <<ExampleCom>>
    /\ req.URL.Host = OtherOrg
    /\ out.status = 403
    /\ items[createCacheKey(req)] # Nil

\* the request is not request-cacheable: a method other than GET and HEAD, an
\* Authorization header, or a Cache-Control header that contains no-store
NotRequestCacheable(r) ==
    \/ r.Method \notin {"GET", "HEAD"}
    \/ r.Authorization # <<>>
    \/ \E i \in 1..Len(r.CacheControl) : ContainsNoStore(r.CacheControl[i])

\* C20: a request that is not request-cacheable causes no cache Get and no cache
\* Set, and an upstream response relayed for it carries X-Cache: MISS.
NotCacheableBypassesCache ==
    (PastResolve /\ NotRequestCacheable(req)) =>
        /\ ~Did("get") /\ ~Did("set")
        /\ Did("fetch") /\ out.marker => out.xcache = "MISS"


\* the response the client has received, as a response to serialize
Received == [StatusCode |-> out.status, Header |-> out.header, Body |-> out.body]

\* the item the cache holds under the request's key
Held == elems[items[createCacheKey(req)]]

ServedFromCacheUntilTTL ==
    [][LET K == createCacheKey(req)
       IN  /\ (stage = "store" /\ stage' = "write" /\ trace' # trace /\ capacity >= 1) =>
                 /\ items'[K] # Nil
                 /\ elems'[items'[K]].Value = serializeResponse(up)
                 /\ elems'[items'[K]].ExpiresAt = now + StoreTTL(up, now)
           /\ (/\ stage = "get" /\ stage' # "get"
               /\ items[K] # Nil
               /\ ~parseCachedResponse(elems[items[K]].Value).err) =>
                 IF elems[items[K]].ExpiresAt = ZeroTime \/ now <= elems[items[K]].ExpiresAt
                    THEN /\ stage' = "done"
                         /\ out'.xcache = "HIT"
                         /\ \A i \in 1..Len(trace') : trace'[i] # "fetch"
                    ELSE /\ stage' = "fetch"
                         /\ items'[K] = Nil
                         /\ out' = NoResponse
           /\ (stage = "fetch" /\ stage' = "read") =>
                 /\ out'.xcache = "MISS"
                 /\ trace' = trace \o <<"fetch", "header", "marker", "xcache", "status">>
      ]_allVars

\* the second request arrives at the instant the stored response expires and
\* is served from the cache
ServedFromCacheUntilTTLReached ==
    /\ stage = "done" /\ handled = 2
    /\ out.xcache = "HIT"
    /\ out.body = <<[raw |-> "up"]>>
    /\ items[createCacheKey(req)] # Nil
    /\ Held.ExpiresAt = now
    /\ now > 1


\* how often the handling of the request has done it
Count(what) == Cardinality({i \in 1..Len(trace) : trace[i] = what})

\* the upstream response may be stored: status 200, no no-store in its
\* Cache-Control, no Set-Cookie header
ResponseStorable(resp) ==
    /\ resp.StatusCode = 200
    /\ \A i \in 1..Len(resp.Header["Cache-Control"]) :
          ~ContainsNoStore(resp.Header["Cache-Control"][i])
    /\ resp.Header["Set-Cookie"] = <<>>

\* C23: an upstream response is written to the cache only if the request is
\* request-cacheable, the upstream status is 200, the upstream Cache-Control
\* does not contain no-store and the response has no Set-Cookie header; when
\* all four hold and the body was read, exactly one Set is issued.
StoredOnlyIfStorable ==
    /\ Did("set") => ~NotRequestCacheable(req) /\ ResponseStorable(up)
    /\ (/\ stage = "write" \/ (stage = "done" /\ Did("body"))
        /\ Did("fetch")
        /\ ~NotRequestCacheable(req) /\ ResponseStorable(up)) => Count("set") = 1
    /\ Count("set") <= 1


\* the Cache-Control of the headers holds a max-age directive that parses
HasMaxAge(h) ==
    \E i \in 1..Len(h["Cache-Control"]) :
        \E j \in 1..Len(h["Cache-Control"][i]) :
            h["Cache-Control"][i][j].name = "max-age" /\ h["Cache-Control"][i][j].num

\* the Expires of the headers parses in one of the four layouts
HasExpires(h) == h["Expires"] # <<>> /\ h["Expires"][1].layout \in Layouts

\* C24: a response without a max-age that parses, whose Expires was not later
\* than the clock when it was stored, is stored already expired: no later
\* request is served it from the cache.  (A response stored before its Expires
\* time expires at that time, so a hit never replays an Expires that is past.)
PastExpiresIsNeverReplayed ==
    (stage = "done" /\ out.xcache = "HIT" /\ ~HasMaxAge(out.header) /\ HasExpires(out.header)) =>
        now <= out.header["Expires"][1].at


\* C25: the TTL a response is stored with is the first max-age of its
\* Cache-Control that parses, else its Expires minus the clock if Expires parses
\* in one of the four layouts, else the configured default; a source is used
\* only when every one before it is absent or does not parse.
StoredWithTTLByPrecedence ==
    (stage = "write" /\ Did("set") /\ capacity >= 1) =>
        Held.ExpiresAt =
            CacheItem(createCacheKey(req), Held.Value, calculateTTL(up, now), now).ExpiresAt


\* C26: when the bytes found in the cache do not deserialize, the request is
\* handled as a miss: nothing has been written to the client at that point, the
\* fetch is performed, the client gets the live response with X-Cache: MISS,
\* and the only error status possible is that of a failed fetch.
UnparsedIsMiss ==
    Did("unparsed") =>
        /\ SubSeq(trace, 1, 3) = <<"filter", "get", "unparsed">>
        /\ Count("unparsed") = 1
        /\ stage \in {"fetch", "read", "store", "write", "done"}
        /\ IF stage = "fetch"
              THEN Len(trace) = 3 /\ out = NoResponse
              ELSE Count("fetch") = 1 /\ trace[4] = "fetch"
        /\ stage = "done" =>
              \/ out.status = 502 /\ trace[Len(trace)] = "status" /\ Len(trace) = 5
              \/ /\ out.marker /\ out.xcache = "MISS"
                 /\ out.status = up.StatusCode /\ out.header = up.Header
                 /\ Did("body") => out.body = up.Body

\* the cache held bytes that are no response; the request was fetched, served
\* as a miss, and the live response has replaced them
UnparsedIsMissReached ==
    /\ stage = "done"
    /\ Did("unparsed") /\ Did("set") /\ Did("body")
    /\ out.xcache = "MISS" /\ out.status = 200
    /\ Held.Value = serializeResponse(up)
    /\ hits = 1


\* the fetch of the request was started and brought no response
FetchFailed == Did("fetch") /\ ~out.marker

\* C27: when the upstream fetch fails the client receives 502 after exactly one
\* fetch attempt, and no cache Set is issued for the request.
FailedFetchIs502 ==
    FetchFailed =>
        /\ stage = "done"
        /\ out.status = 502
        /\ Count("fetch") = 1
        /\ Count("status") = 1
        /\ ~Did("set")
        /\ SubSeq(trace, Len(trace) - 1, Len(trace)) = <<"fetch", "status">>

\* a lookup has evicted the expired response of the first request, and the
\* fetch that followed has failed
FailedFetchIs502Reached ==
    /\ stage = "done" /\ handled = 2
    /\ FetchFailed
    /\ out.status = 502
    /\ evictions = 1
    /\ StoredKeys = {}


\* the status is written to the client at most once, and once when
\* handleRequest has returned
StatusOnce == Count("status") <= 1 /\ (stage = "done" => Count("status") = 1)

\* C28: on the fetch path with a cacheable request and response the pipeline
\* first Sets the serialized response into the cache and only then writes to
\* the client, each once and in this order: the upstream headers, the
\* X-Proxy-Server marker, X-Cache: MISS, the status, the body; on every path
\* the status is written exactly once.
StoredThenWritten ==
    /\ StatusOnce
    /\ (stage = "done" /\ Did("set")) =>
          /\ Len(trace) >= 7
          /\ SubSeq(trace, Len(trace) - 6, Len(trace)) =
                <<"fetch", "set", "header", "marker", "xcache", "status", "body">>


Resolved(r) == [r EXCEPT !.URL = Parse(r.Param).url]

\* C30: two requests use the same cache entry exactly when they have the same
\* method and the same target URL string, compared as given: the request in
\* hand shares its key with no request of another method or another target.
KeyIsMethodAndExactTarget ==
    (PastResolve /\ ~NoTarget(req) /\ req.Param # "") =>
        \A r \in KeyRequests :
            (createCacheKey(req) = createCacheKey(Resolved(r)))
                <=> (req.Method = r.Method /\ req.Param = r.Param)

\* the names of the header map that have a value
NamesOf(h) == {n \in HeaderNames : h[n] # <<>>}

\* the CachedResponse came back: the same status, the same values in the same
\* order under every name, the same body
CameBack ==
    /\ ~wireParsed.err
    /\ wireParsed.StatusCode = wireResp.StatusCode
    /\ wireParsed.Header = wireResp.Header
    /\ wireParsed.Body = wireResp.Body

\* C31 as stated: deserializing the serialized form reproduces the status, the
\* header multimap with the order of the values under each name, and the body.
RoundTrip == wire = "parsed" => CameBack

\* C31: when every name of the header map is in canonical MIME form,
\* deserializing the serialized form reproduces the status, the header multimap
\* with the order of the values under each name, and the body, also when the
\* body holds empty lines.
CanonicalRoundTrip ==
    (wire = "parsed" /\ \A n \in NamesOf(wireResp.Header) : CanonicalMIMEHeaderKey(n) = n)
        => CameBack

CanonicalRoundTripReached ==
    /\ wire = "parsed"
    /\ wireResp.Header["X-Trace"] = <<"b", "a">>
    /\ wireResp.Header["x-trace"] = <<>>
    /\ Len(wireResp.Header["Set-Cookie"]) = 2
    /\ wireResp.Body = <<EmptyLine, StatusLine(500), HeaderLine("X-Trace", "z"), EmptyLine>>
    /\ CameBack


\* C32: the fetch follows up to 10 redirects and returns the final response; it
\* fails, and the client gets 502, only when an 11th redirect is met.
FollowsTenRedirects == do = "done" => (answer = 502 <=> chain > MaxRedirects)

\* SecurityHeaders, lines 224-227: the headers it sets
SecurityHeaders ==
    {<<"X-Content-Type-Options", "nosniff">>, <<"X-Frame-Options", "DENY">>,
     <<"X-XSS-Protection", "1; mode=block">>,
     <<"Referrer-Policy", "strict-origin-when-cross-origin">>}

\* the chain has returned with a response written
Replied == hop = 0 /\ reply.status # 0

\* C33: every response served through the chain of CreateMiddlewareChain
\* carries X-Content-Type-Options: nosniff, X-Frame-Options: DENY and
\* X-XSS-Protection: 1; mode=block.
RepliesCarrySecurityHeaders ==
    Replied => \A h \in SecurityHeaders : h[1] = "Referrer-Policy" \/ h \in reply.header

\* the requests of the address of the i-th request that RateLimit passed on
\* within the minute that ends with the i-th
PassedInWindow(i) ==
    {j \in 1..(i - 1) : /\ limited[j].ip = limited[i].ip
                        /\ limited[j].pass
                        /\ limited[i].at - limited[j].at <= Minute}

\* C34: RateLimit(n) rejects a request only beyond n requests of its address
\* within one minute: a client with fewer than n requests in each minute is
\* never rejected.
RejectsOnlyBeyondLimit ==
    \A i \in DOMAIN limited :
        ~limited[i].pass => Cardinality(PassedInWindow(i)) >= requestsPerMinute


\* C35: under any interleaving of Set, Get, Remove and Clear the index and the
\* recency list describe the same entries: every index key maps to a list
\* element that holds an entry of that key, every list element's key is in the
\* index and maps to that element, and no key is twice in the list.
IndexMatchesList ==
    /\ \A k \in Keys :
         items[k] # Nil => (items[k] \in Range(evictionList) /\ elems[items[k]].Key = k)
    /\ \A e \in Range(evictionList) : items[elems[e].Key] = e
    /\ \A i, j \in DOMAIN evictionList :
         i # j => elems[evictionList[i]].Key # elems[evictionList[j]].Key


\* C36: the entry of a key that a Set has stored leaves the index only by a
\* Remove, a Clear, a capacity eviction when it is the least recently used, or a
\* Get while the TTL of the value now stored has elapsed; a Get that looked the
\* key up while an earlier value was stored never removes a later Set's value.
DestroyedOnlyByItsOwnEnd ==
    [][\A k \in Keys :
         (items[k] # Nil /\ items'[k] = Nil) =>
            \/ calls' # calls /\ ret'.op \in {"Remove", "Clear"}
            \/ calls' # calls /\ ret'.op = "Set" /\ items[k] = Back(evictionList)
            \/ calls' = calls /\ IsExpired(elems[items[k]], now)]_vars


\* the callers whose job the queue has accepted
Accepted == {c \in Callers : caller[c] \in {"wait", "returned"}}

\* C37: when Stop is called while jobs wait in the queue, every job the queue
\* had accepted has been executed by a worker and its caller released (its done
\* channel closed) when Stop returns; and a caller that was blocked at the send
\* on a full queue when Stop closed it does not stay blocked.
StopDrainsQueue ==
    /\ [](stop = "returned" =>
            /\ jobQueue = <<>>
            /\ \A c \in Accepted : Len(served[c]) = 1 /\ done[c])
    /\ \A c \in Callers :
         (c \in blocked /\ closed /\ caller[c] = "send") ~> (caller[c] # "send")

\* Stop has returned after the worker ran the two jobs that filled the queue,
\* while the caller that was blocked at the send has left it
StopDrainsQueueReached ==
    /\ stop = "returned"
    /\ Cardinality({c \in Accepted : Len(served[c]) = 1 /\ done[c]}) = 2
    /\ \E c \in blocked : caller[c] = "panic"


\* C39: for every capacity, negative ones too, every Set call terminates: its
\* eviction loop stops and the call returns, releasing the lock.
SetTerminates == (setting = "loop") ~> (setting = "idle")


\* the key is stored and its TTL has elapsed
Expired(k) == items[k] # Nil /\ IsExpired(elems[items[k]], now)

\* the place of an element in the recency list
Place(l, e) == CHOOSE i \in DOMAIN l : l[i] = e

\* C38: expiry is lazy. An entry whose TTL has elapsed still counts in Size();
\* it leaves the store only through a Get or a Remove of its key, a Clear, or a
\* capacity eviction when it is the least recently used; and while it stays and
\* its key is not Set again it keeps its place behind and before the entries
\* that are not touched.
LazyExpiry ==
    /\ [](\A k \in Keys :
            Expired(k) => (items[k] \in Range(evictionList) /\ Size = Cardinality(StoredKeys)))
    /\ [][\A k \in Keys :
            Expired(k) =>
               IF items'[k] = Nil
                  THEN \/ calls' = calls /\ \E p \in Procs : pc[p] # "idle" /\ key[p] = k
                       \/ calls' # calls /\ ret'.op = "Remove" /\ RemoveKey(k)
                       \/ calls' # calls /\ ret'.op = "Clear"
                       \/ /\ calls' # calls /\ ret'.op = "Set"
                          /\ Size = Capacity /\ items[k] = Back(evictionList)
                  ELSE \/ calls' # calls /\ ret'.op = "Set" /\ evictionList'[1] = items'[k]
                       \/ /\ items'[k] = items[k]
                          /\ \A e \in (Range(evictionList) \cap Range(evictionList'))
                                         \ {items[k], evictionList'[1]} :
                                (Place(evictionList, e) < Place(evictionList, items[k]))
                                   <=> (Place(evictionList', e) < Place(evictionList', items[k]))
         ]_allVars

\* a Set of a new key at capacity has evicted an entry whose TTL had not
\* elapsed, the least recently used, while an entry whose TTL has elapsed stays
LazyExpiryReached ==
    /\ removed = {[Key |-> "a", expired |-> FALSE]}
    /\ ret = [op |-> "Set", ok |-> TRUE]
    /\ Size = Capacity
    /\ \E k \in StoredKeys : Expired(k)


====
